---- MODULE Spec2Model ----
(***************************************************************************)
(* NetExec path-independent bootstrap: the invocation harness              *)
(* (run_netexec.py), the resource path resolver                            *)
(* (nxc/helpers/resource_manager.py), the deployment mode detection and    *)
(* the self-test verdict (nxc/helpers/self_test.py).                       *)
(***************************************************************************)
EXTENDS Integers, Sequences, FiniteSets, TLC

\* ---------------------------------------------------------------- bounds
\* Threads of the host process that may call into the harness / resolver.
NumThreads == 2
\* run_netexec calls one thread starts in a behaviour.
MaxCalls == 2
\* Writes the wrapped entry point makes to the global streams in one call.
MaxWrites == 2
\* The same two, where several threads call at once.
MaxConcCalls == 1
MaxConcWrites == 1
\* Accessor calls (get_resource_manager / ResourceManager()) per thread.
MaxAccess == 2
\* Length of the result list handed to the verdict computation.
MaxResults == 10
\* resolver operations in a run, and calls of get_resource_manager() before them
MaxOps == 2
MaxGets == 1
\* a returncode outside the ones the checks expect
OddCode == 3
\* runs of patch_database_path in a behaviour
MaxPatches == 2
\* the number of exit statuses of a process
ExitStatuses == 256

Threads == 1..NumThreads
\* The thread the interpreter starts with.
MainThread == CHOOSE t \in Threads : \A u \in Threads : t <= u

VARIABLES
    \* ---- process globals touched by the harness
    sys_stdout, sys_stderr, sys_argv,
    content,            \* text held by every stream object
    \* ---- run_netexec / capture_output locals, per calling thread
    pc, args, original_argv, old_stdout, old_stderr,
    stdout_capture, stderr_capture, result, pending,
    \* ---- bookkeeping of each call (history, not program state): the
    \* ---- globals when it began and the threads that had a call under way
    \* ---- then, what main() wrote and did, the fault, how the call ended
    ncalls, pre, wrote, outcome, fault, completion,
    \* ---- the process environment detection reads, and the filesystem
    env, fs, sys_path,
    boot,               \* what initialize_path_independence() left
    \* ---- resource_manager.py: class attribute, module global, instances
    cls_instance, resource_manager, objs, nobjs,
    \* ---- accessor calls in progress, per calling thread
    pcR, kindR, selfR, retR,
    \* ---- bookkeeping of the accessor calls
    naccess, returned, detections,
    \* ---- SelfTestRunner: the result list, where run_all_tests stands,
    \* ---- the verdict line printed and the value returned
    results, pcT, printed, overall,
    tally,              \* how many results of each status the list was built from
    invoked,            \* the run_netexec calls of the check that ran last
    \* ---- the resolver's operations: directories that refuse new entries,
    \* ---- the latest operation with what it gave, the number of
    \* ---- operations so far, the environment the singleton was built in
    denied, last, nops, env0,
    \* ---- run_netexec.py main() and self_test(): where main() stands, its
    \* ---- locals args and success, the fallback's test_results, the exit
    \* ---- status of the process, and os.environ
    pcM, main_args, success, test_results, exit_code, os_environ

harnessVars == <<sys_stdout, sys_stderr, sys_argv, content, pc, args,
                 original_argv, old_stdout, old_stderr, stdout_capture,
                 stderr_capture, result, pending, ncalls, pre, wrote,
                 outcome, fault, completion>>

resolverVars == <<env, fs, sys_path, boot, cls_instance, resource_manager,
                  objs, nobjs, pcR, kindR, selfR, retR, naccess, returned,
                  detections>>

selfTestVars == <<results, pcT, printed, overall, tally, invoked>>

pathVars == <<denied, last, nops, env0>>

mainVars == <<pcM, main_args, success, test_results, exit_code, os_environ>>

vars == <<harnessVars, resolverVars, selfTestVars, pathVars, mainVars>>

\* What the steps of one component leave alone.
notHarness == <<resolverVars, selfTestVars, pathVars, mainVars>>
notResolver == <<harnessVars, selfTestVars, pathVars, mainVars>>
notSelfTest == <<harnessVars, resolverVars, pathVars, mainVars>>
notPaths == <<harnessVars, selfTestVars, mainVars>>
notMain == <<harnessVars, resolverVars, selfTestVars, pathVars>>

\* ------------------------------------------------------- Python values
PyNone == [type |-> "NoneType", int |-> 0, str |-> ""]
PyInt(n) == [type |-> "int", int |-> n, str |-> ""]
PyStr(s) == [type |-> "str", int |-> 0, str |-> s]

\* isinstance(v, int)
IsInt(v) == v.type = "int"

\* bool(v)
Truthy(v) ==
    CASE v.type = "int" -> v.int # 0
      [] v.type = "str" -> v.str # ""
      [] OTHER -> FALSE

\* Values main() returns: an integer or None.
ReturnValues == {PyNone, PyInt(0), PyInt(1), PyInt(2)}
\* Payloads of SystemExit: sys.exit(), sys.exit(n), sys.exit("message").
ExitPayloads == {PyNone, PyInt(0), PyInt(1), PyInt(2), PyStr(""), PyStr("msg")}

Outcome(kind, payload) == [kind |-> kind, payload |-> payload]
NoOutcome == Outcome("none", PyNone)
\* What the wrapped entry point can do: return, sys.exit, raise an Exception,
\* raise a BaseException that is neither (KeyboardInterrupt, GeneratorExit).
Outcomes ==
    {Outcome("return", v) : v \in ReturnValues}
        \cup {Outcome("SystemExit", v) : v \in ExitPayloads}
        \cup {Outcome("Exception", PyNone), Outcome("BaseException", PyNone)}

\* ------------------------------------------------------------- streams
Stream(owner, call, fd) == [owner |-> owner, call |-> call, fd |-> fd]
\* The streams bound before any call.
Orig(fd) == Stream(0, 0, fd)
\* The io.StringIO() objects of call n of thread t.
Buf(t, n, fd) == Stream(t, n, fd)
NoStream == Stream(0, 0, "unset")
Fds == {"out", "err"}
StreamIds == {Orig(fd) : fd \in Fds}
                \cup {Buf(t, n, fd) : t \in Threads, n \in 1..MaxCalls, fd \in Fds}

Token(tag, t, n) == [tag |-> tag, by |-> t, call |-> n]

ArgVectors == {<< >>, <<"--help">>, <<"smb", "--help">>}
InitialArgvs ==
    {<<"run_netexec.py">>, <<"run_netexec.py", "smb">>,
     <<"run_netexec.py", "smb", "--help">>}

NewResult == [returncode |-> 0, stdout |-> << >>, stderr |-> << >>]
NoPre == [out |-> NoStream, err |-> NoStream, argv |-> << >>, others |-> {}]
NoWrote == [out |-> << >>, err |-> << >>]

\* -------------------------------------------------------------- harness
InitHarness ==
    /\ sys_stdout \in {Orig("out"), Orig("err")}
    /\ sys_stderr = Orig("err")
    /\ sys_argv \in InitialArgvs
    /\ content = [s \in StreamIds |-> << >>]
    /\ pc = [t \in Threads |-> "idle"]
    /\ args = [t \in Threads |-> << >>]
    /\ original_argv = [t \in Threads |-> << >>]
    /\ old_stdout = [t \in Threads |-> NoStream]
    /\ old_stderr = [t \in Threads |-> NoStream]
    /\ stdout_capture = [t \in Threads |-> NoStream]
    /\ stderr_capture = [t \in Threads |-> NoStream]
    /\ result = [t \in Threads |-> NewResult]
    /\ pending = [t \in Threads |-> FALSE]
    /\ ncalls = [t \in Threads |-> 0]
    /\ pre = [t \in Threads |-> NoPre]
    /\ wrote = [t \in Threads |-> NoWrote]
    /\ outcome = [t \in Threads |-> NoOutcome]
    /\ fault = [t \in Threads |-> "none"]
    /\ completion = [t \in Threads |-> "none"]

\* run_netexec, lines 98-106: the result dict and original_argv = sys.argv.copy()
Call(t, a, limit) ==
    /\ pc[t] = "idle"
    /\ ncalls[t] < limit
    /\ args' = [args EXCEPT ![t] = a]
    /\ result' = [result EXCEPT ![t] = NewResult]
    /\ original_argv' = [original_argv EXCEPT ![t] = sys_argv]
    /\ ncalls' = [ncalls EXCEPT ![t] = @ + 1]
    /\ pre' = [pre EXCEPT ![t] = [out |-> sys_stdout, err |-> sys_stderr,
                                  argv |-> sys_argv,
                                  others |-> {u \in Threads \ {t} :
                                                 pc[u] # "idle"}]]
    /\ wrote' = [wrote EXCEPT ![t] = NoWrote]
    /\ outcome' = [outcome EXCEPT ![t] = NoOutcome]
    /\ fault' = [fault EXCEPT ![t] = "none"]
    /\ completion' = [completion EXCEPT ![t] = "none"]
    /\ pending' = [pending EXCEPT ![t] = FALSE]
    /\ old_stdout' = [old_stdout EXCEPT ![t] = NoStream]
    /\ old_stderr' = [old_stderr EXCEPT ![t] = NoStream]
    /\ stdout_capture' = [stdout_capture EXCEPT ![t] = NoStream]
    /\ stderr_capture' = [stderr_capture EXCEPT ![t] = NoStream]
    /\ pc' = [pc EXCEPT ![t] = "set_argv"]
    /\ UNCHANGED <<notHarness, sys_stdout, sys_stderr, sys_argv, content>>

\* line 110: sys.argv = ['netexec'] + args
SetArgv(t) ==
    /\ pc[t] = "set_argv"
    /\ sys_argv' = <<"netexec">> \o args[t]
    /\ pc' = [pc EXCEPT ![t] = "cap_save_out"]
    /\ UNCHANGED <<notHarness, sys_stdout, sys_stderr, content, args, original_argv,
                   old_stdout, old_stderr, stdout_capture, stderr_capture,
                   result, pending, ncalls, pre, wrote, outcome, fault,
                   completion>>

\* capture_output, line 65: old_stdout = sys.stdout
CapSaveOut(t) ==
    /\ pc[t] = "cap_save_out"
    /\ old_stdout' = [old_stdout EXCEPT ![t] = sys_stdout]
    /\ pc' = [pc EXCEPT ![t] = "cap_save_err"]
    /\ UNCHANGED <<notHarness, sys_stdout, sys_stderr, sys_argv, content, args,
                   original_argv, old_stderr, stdout_capture, stderr_capture,
                   result, pending, ncalls, pre, wrote, outcome, fault,
                   completion>>

\* capture_output, line 66: old_stderr = sys.stderr
CapSaveErr(t) ==
    /\ pc[t] = "cap_save_err"
    /\ old_stderr' = [old_stderr EXCEPT ![t] = sys_stderr]
    /\ pc' = [pc EXCEPT ![t] = "cap_alloc"]
    /\ UNCHANGED <<notHarness, sys_stdout, sys_stderr, sys_argv, content, args,
                   original_argv, old_stdout, stdout_capture, stderr_capture,
                   result, pending, ncalls, pre, wrote, outcome, fault,
                   completion>>

\* capture_output, lines 67-68: two fresh io.StringIO() buffers
CapAlloc(t) ==
    /\ pc[t] = "cap_alloc"
    /\ stdout_capture' = [stdout_capture EXCEPT ![t] = Buf(t, ncalls[t], "out")]
    /\ stderr_capture' = [stderr_capture EXCEPT ![t] = Buf(t, ncalls[t], "err")]
    /\ content' = [content EXCEPT ![Buf(t, ncalls[t], "out")] = << >>,
                                  ![Buf(t, ncalls[t], "err")] = << >>]
    /\ pc' = [pc EXCEPT ![t] = "cap_install_out"]
    /\ UNCHANGED <<notHarness, sys_stdout, sys_stderr, sys_argv, args, original_argv,
                   old_stdout, old_stderr, result, pending, ncalls, pre,
                   wrote, outcome, fault, completion>>

\* A slip in line 134: the outer handler leaves the returncode as it was.
FatalResult_KeepsCode(r, t, n) ==
    [r EXCEPT !.stderr = <<Token("Fatal", t, n)>>]

\* run_netexec, lines 133-135: the outer handler of a harness-internal
\* Exception: returncode 1 and stderr replaced by the "Fatal error" text.
FatalResult(r, t, n) ==
    [r EXCEPT !.returncode = 1, !.stderr = <<Token("Fatal", t, n)>>]

\* lines 67-68 raising (buffer allocation fails): capture_output has not
\* entered its try block, the with statement raises into lines 133-135.
CapAllocFail(t) ==
    /\ pc[t] = "cap_alloc"
    /\ fault' = [fault EXCEPT ![t] = "setup"]
    /\ result' = [result EXCEPT ![t] = FatalResult(@, t, ncalls[t])]
    /\ pc' = [pc EXCEPT ![t] = "restore_argv"]
    /\ UNCHANGED <<notHarness, sys_stdout, sys_stderr, sys_argv, content, args,
                   original_argv, old_stdout, old_stderr, stdout_capture,
                   stderr_capture, pending, ncalls, pre, wrote, outcome,
                   completion>>

\* capture_output, line 71: sys.stdout = stdout_capture
CapInstallOut(t) ==
    /\ pc[t] = "cap_install_out"
    /\ sys_stdout' = stdout_capture[t]
    /\ pc' = [pc EXCEPT ![t] = "cap_install_err"]
    /\ UNCHANGED <<notHarness, sys_stderr, sys_argv, content, args, original_argv,
                   old_stdout, old_stderr, stdout_capture, stderr_capture,
                   result, pending, ncalls, pre, wrote, outcome, fault,
                   completion>>

\* capture_output, line 72: sys.stderr = stderr_capture
CapInstallErr(t) ==
    /\ pc[t] = "cap_install_err"
    /\ sys_stderr' = stderr_capture[t]
    /\ pc' = [pc EXCEPT ![t] = "main"]
    /\ UNCHANGED <<notHarness, sys_stdout, sys_argv, content, args, original_argv,
                   old_stdout, old_stderr, stdout_capture, stderr_capture,
                   result, pending, ncalls, pre, wrote, outcome, fault,
                   completion>>

\* A slip in line 119: the text goes to the stream objects of the process
\* start, whatever sys.stdout and sys.stderr are bound to.
Bound_AtStart(fd) == Orig(fd)

\* The stream a print to sys.stdout / sys.stderr reaches: the binding is
\* looked up when the write happens.
Bound(fd) == IF fd = "out" THEN sys_stdout ELSE sys_stderr

\* line 119, main() running: one write to the global stdout or stderr
MainWrite(t, fd, limit) ==
    /\ pc[t] = "main"
    /\ Len(wrote[t].out) + Len(wrote[t].err) < limit
    /\ LET tok == Token("text", t, ncalls[t]) IN
        /\ content' = [content EXCEPT ![Bound(fd)] = Append(@, tok)]
        /\ wrote' = [wrote EXCEPT ![t][fd] = Append(@, tok)]
    /\ UNCHANGED <<notHarness, sys_stdout, sys_stderr, sys_argv, pc, args, original_argv,
                   old_stdout, old_stderr, stdout_capture, stderr_capture,
                   result, pending, ncalls, pre, outcome, fault, completion>>

\* line 120: result["returncode"] = exit_code if exit_code is not None else 0
ReturnCodeOfReturn(v) == IF v.type # "NoneType" THEN v.int ELSE 0

\* A slip in line 124: every non-integer payload taken as a failure.
ReturnCodeOfExit_NonIntIsOne(code) == IF IsInt(code) THEN code.int ELSE 1

\* line 124: e.code if isinstance(e.code, int) else (1 if e.code else 0)
ReturnCodeOfExit(code) ==
    IF IsInt(code) THEN code.int ELSE (IF Truthy(code) THEN 1 ELSE 0)

\* A slip in lines 122-125: the exit signal is not caught.
CaughtInner_NoExit(kind) == kind = "Exception"

\* lines 122 and 125: the except clauses around main()
CaughtInner(kind) == kind \in {"SystemExit", "Exception"}

\* lines 114-127: how the try block around main() leaves the result
AfterMain(r, o, t, n) ==
    CASE o.kind = "return" ->
            [r EXCEPT !.returncode = ReturnCodeOfReturn(o.payload)]
      [] o.kind = "SystemExit" /\ CaughtInner(o.kind) ->
            [r EXCEPT !.returncode = ReturnCodeOfExit(o.payload)]
      [] o.kind = "Exception" /\ CaughtInner(o.kind) ->
            [r EXCEPT !.returncode = 1,
                      !.stderr = @ \o <<Token("Exception", t, n)>>]
      [] OTHER -> r

\* line 119, main() ending: it returns, exits or raises; lines 120-127 run
MainEnd(t, o) ==
    /\ pc[t] = "main"
    /\ outcome' = [outcome EXCEPT ![t] = o]
    /\ result' = [result EXCEPT ![t] = AfterMain(@, o, t, ncalls[t])]
    /\ pending' = [pending EXCEPT ![t] = (o.kind # "return" /\ ~CaughtInner(o.kind))]
    /\ pc' = [pc EXCEPT ![t] = "cap_restore_out"]
    /\ UNCHANGED <<notHarness, sys_stdout, sys_stderr, sys_argv, content, args,
                   original_argv, old_stdout, old_stderr, stdout_capture,
                   stderr_capture, ncalls, pre, wrote, fault, completion>>

\* A slip in line 75: the finally clause leaves sys.stdout alone.
CapRestoreOut_Skip(t) ==
    /\ pc[t] = "cap_restore_out"
    /\ pc' = [pc EXCEPT ![t] = "cap_restore_err"]
    /\ UNCHANGED <<notHarness, sys_stdout, sys_stderr, sys_argv, content,
                   args, original_argv, old_stdout, old_stderr,
                   stdout_capture, stderr_capture, result, pending, ncalls,
                   pre, wrote, outcome, fault, completion>>

\* capture_output, line 75 (finally): sys.stdout = old_stdout
CapRestoreOut(t) ==
    /\ pc[t] = "cap_restore_out"
    /\ sys_stdout' = old_stdout[t]
    /\ pc' = [pc EXCEPT ![t] = "cap_restore_err"]
    /\ UNCHANGED <<notHarness, sys_stderr, sys_argv, content, args, original_argv,
                   old_stdout, old_stderr, stdout_capture, stderr_capture,
                   result, pending, ncalls, pre, wrote, outcome, fault,
                   completion>>

\* line 133: the outer "except Exception" clause
CaughtOuter(kind) == kind = "Exception"

\* capture_output, line 76 (finally): sys.stderr = old_stderr.  An exception
\* the inner handlers did not catch then reaches the outer try statement:
\* lines 133-135 take an Exception, anything else goes on to the caller.
CapRestoreErr(t) ==
    /\ pc[t] = "cap_restore_err"
    /\ sys_stderr' = old_stderr[t]
    /\ IF pending[t] /\ CaughtOuter(outcome[t].kind)
       THEN /\ result' = [result EXCEPT ![t] = FatalResult(@, t, ncalls[t])]
            /\ pending' = [pending EXCEPT ![t] = FALSE]
            /\ pc' = [pc EXCEPT ![t] = "restore_argv"]
       ELSE /\ UNCHANGED <<result, pending>>
            /\ pc' = [pc EXCEPT ![t] = IF pending[t] THEN "restore_argv"
                                                    ELSE "read_out"]
    /\ UNCHANGED <<notHarness, sys_stdout, sys_argv, content, args,
                   original_argv, old_stdout, old_stderr, stdout_capture,
                   stderr_capture, ncalls, pre, wrote, outcome, fault,
                   completion>>

\* line 130: result["stdout"] = stdout_capture.getvalue()
ReadOut(t) ==
    /\ pc[t] = "read_out"
    /\ result' = [result EXCEPT ![t].stdout = content[stdout_capture[t]]]
    /\ pc' = [pc EXCEPT ![t] = "read_err"]
    /\ UNCHANGED <<notHarness, sys_stdout, sys_stderr, sys_argv, content, args,
                   original_argv, old_stdout, old_stderr, stdout_capture,
                   stderr_capture, pending, ncalls, pre, wrote, outcome,
                   fault, completion>>

\* line 131: result["stderr"] = stderr_capture.getvalue()
ReadErr(t) ==
    /\ pc[t] = "read_err"
    /\ result' = [result EXCEPT ![t].stderr = content[stderr_capture[t]]]
    /\ pc' = [pc EXCEPT ![t] = "restore_argv"]
    /\ UNCHANGED <<notHarness, sys_stdout, sys_stderr, sys_argv, content, args,
                   original_argv, old_stdout, old_stderr, stdout_capture,
                   stderr_capture, pending, ncalls, pre, wrote, outcome,
                   fault, completion>>

\* line 130 or 131 raising (getvalue() on a buffer main() closed): lines
\* 133-135
ReadFail(t) ==
    /\ pc[t] \in {"read_out", "read_err"}
    /\ fault' = [fault EXCEPT ![t] = pc[t]]
    /\ result' = [result EXCEPT ![t] = FatalResult(@, t, ncalls[t])]
    /\ pc' = [pc EXCEPT ![t] = "restore_argv"]
    /\ UNCHANGED <<notHarness, sys_stdout, sys_stderr, sys_argv, content, args,
                   original_argv, old_stdout, old_stderr, stdout_capture,
                   stderr_capture, pending, ncalls, pre, wrote, outcome,
                   completion>>

\* A stream object something still refers to.
Referenced(s, t) ==
    \/ s \in {sys_stdout, sys_stderr}
    \/ \E u \in Threads \ {t} : s \in {old_stdout[u], old_stderr[u]}

\* lines 136-140: sys.argv = original_argv, then return result (or let the
\* pending exception go on to the caller).  The call's locals die here; a
\* buffer nothing refers to any more is dropped.
RestoreArgv(t) ==
    /\ pc[t] = "restore_argv"
    /\ sys_argv' = original_argv[t]
    /\ completion' = [completion EXCEPT ![t] = IF pending[t] THEN "raised"
                                                            ELSE "returned"]
    /\ content' = [s \in StreamIds |->
                     IF s \in {stdout_capture[t], stderr_capture[t]}
                        /\ ~Referenced(s, t)
                     THEN << >> ELSE content[s]]
    /\ old_stdout' = [old_stdout EXCEPT ![t] = NoStream]
    /\ old_stderr' = [old_stderr EXCEPT ![t] = NoStream]
    /\ stdout_capture' = [stdout_capture EXCEPT ![t] = NoStream]
    /\ stderr_capture' = [stderr_capture EXCEPT ![t] = NoStream]
    /\ pc' = [pc EXCEPT ![t] = "idle"]
    /\ UNCHANGED <<notHarness, sys_stdout, sys_stderr, args, original_argv, result,
                   pending, ncalls, pre, wrote, outcome, fault>>

\* One step of a run_netexec call that has begun.
HarnessRun(t) ==
    \/ SetArgv(t)
    \/ CapSaveOut(t)
    \/ CapSaveErr(t)
    \/ CapAlloc(t)
    \/ CapAllocFail(t)
    \/ CapInstallOut(t)
    \/ CapInstallErr(t)
    \/ \E fd \in Fds : MainWrite(t, fd, MaxWrites)
    \/ \E o \in Outcomes : MainEnd(t, o)
    \/ CapRestoreOut(t)
    \/ CapRestoreErr(t)
    \/ ReadOut(t)
    \/ ReadErr(t)
    \/ ReadFail(t)
    \/ RestoreArgv(t)

\* One step of a run_netexec call of the single caller.
HarnessStep(t) ==
    \/ \E a \in ArgVectors : Call(t, a, MaxCalls)
    \/ SetArgv(t)
    \/ CapSaveOut(t)
    \/ CapSaveErr(t)
    \/ CapAlloc(t)
    \/ CapAllocFail(t)
    \/ CapInstallOut(t)
    \/ CapInstallErr(t)
    \/ \E fd \in Fds : MainWrite(t, fd, MaxWrites)
    \/ \E o \in Outcomes : MainEnd(t, o)
    \/ CapRestoreOut(t)
    \/ CapRestoreErr(t)
    \/ ReadOut(t)
    \/ ReadErr(t)
    \/ ReadFail(t)
    \/ RestoreArgv(t)

\* One step of a run_netexec call of one of several calling threads: the
\* same statements, each thread calling with its own argument vector and the
\* entry point returning 0 or raising.
ConcArgs(t) == <<"smb", "--help">> \o [i \in 1..(t - 1) |-> "-L"]
ConcOutcomes == {Outcome("return", PyInt(0)), Outcome("Exception", PyNone)}
HarnessStepConc(t) ==
    \/ Call(t, ConcArgs(t), MaxConcCalls)
    \/ SetArgv(t)
    \/ CapSaveOut(t)
    \/ CapSaveErr(t)
    \/ CapAlloc(t)
    \/ CapInstallOut(t)
    \/ CapInstallErr(t)
    \/ \E fd \in Fds : MainWrite(t, fd, MaxConcWrites)
    \/ \E o \in ConcOutcomes : MainEnd(t, o)
    \/ CapRestoreOut(t)
    \/ CapRestoreErr(t)
    \/ ReadOut(t)
    \/ ReadErr(t)
    \/ RestoreArgv(t)

\* ---------------------------------------------------------------- paths
\* A pathlib.Path: the sequence of its components.
\* Path.parent
Parent(p) == IF Len(p) = 0 THEN p ELSE SubSeq(p, 1, Len(p) - 1)
\* Path / name
Join(p, name) == Append(p, name)
\* Path.exists()
Exists(p, fsys) == p \in fsys

Dirs == {<<"opt", "app">>, <<"tmp", "onefile">>, <<"site">>}
\* Path.home() of an ordinary account
HomeDir == <<"home", "user">>
ImportResults == {"ok", "ImportError", "AttributeError"}

\* The process environment: sys.frozen, sys._MEIPASS, sys.executable, the
\* outcome of "import nxc" with nxc.__file__, and the __file__ of the two
\* modules that run detection.  nxcHome is the directory that holds the
\* installed nxc package, cwd the current working directory; exeDir,
\* scriptDir and rmHome name the directories the three files were put in;
\* userHome is what Path.home() gives.
MakeEnv(fr, hm, mei, exeDir, imp, home, scriptDir, rmHome, cwd, userHome) ==
    [frozen |-> fr, hasMeipass |-> hm, meipass |-> mei,
     exeDir |-> exeDir, executable |-> Join(exeDir, "netexec.bin"),
     nxcImport |-> imp, nxcHome |-> home,
     nxcFile |-> Join(Join(home, "nxc"), "__init__.py"),
     scriptDir |-> scriptDir, scriptFile |-> Join(scriptDir, "run_netexec.py"),
     rmHome |-> rmHome,
     rmFile |-> Join(Join(Join(rmHome, "nxc"), "helpers"), "resource_manager.py"),
     cwd |-> cwd, userHome |-> userHome]

\* resource_manager.py is a module of the nxc package: when "import nxc"
\* succeeds, it lies in the package that was imported.
Envs ==
    {MakeEnv(fr, hm, mei, exeDir, imp, home, scriptDir,
             IF imp = "ok" THEN home ELSE rmHome, cwd, HomeDir) :
        fr \in BOOLEAN, hm \in BOOLEAN, mei \in Dirs, exeDir \in Dirs,
        imp \in ImportResults, home \in Dirs, scriptDir \in Dirs,
        rmHome \in Dirs, cwd \in Dirs}

DefaultEnv ==
    MakeEnv(FALSE, FALSE, <<"tmp", "onefile">>, <<"opt", "app">>, "ok",
            <<"site">>, <<"opt", "app">>, <<"site">>, <<"opt", "app">>,
            HomeDir)

\* Environments with every directory different, one per marker combination.
EnvsConc ==
    {MakeEnv(fr, hm, <<"tmp", "onefile">>, <<"opt", "app">>, "ok",
             <<"site">>, <<"opt", "app">>, <<"site">>, <<"opt", "app">>,
             HomeDir) :
        fr \in BOOLEAN, hm \in BOOLEAN}

\* A directory and all the directories above it, up to the root.
Ancestors(p) == {SubSeq(p, 1, k) : k \in 0..Len(p)}
\* A directory tree: every directory on disk has its parent on disk.
Tree(ds) == UNION {Ancestors(p) : p \in ds}

\* The directories on disk: the known directories, the user's home, the
\* imported package, and possibly an nxc directory beside the bootstrap
\* script.
FsOf(e, beside) ==
    Tree(Dirs
      \cup {e.userHome}
      \cup (IF e.nxcImport = "ok" THEN {Join(e.nxcHome, "nxc")} ELSE {})
      \cup (IF beside THEN {Join(Parent(e.scriptFile), "nxc")} ELSE {}))

\* ------------------------------------------------------------ detection
Detected(mode, hasBase, base) == [mode |-> mode, hasBase |-> hasBase, base |-> base]
NoPath == << >>

\* A slip in lines 41-46: a frozen process always takes the executable's
\* directory.
FindBasePath_NoOneFile(e) ==
    IF e.frozen
    THEN Detected("FrozenStandalone", TRUE, Parent(e.executable))
    ELSE IF e.nxcImport = "ok"
         THEN Detected("SourceCheckout", TRUE, Parent(Parent(e.nxcFile)))
         ELSE Detected("SourceCheckout", TRUE, Parent(Parent(Parent(e.rmFile))))

\* ResourceManager._find_base_path, lines 39-55, with the mode each return
\* statement stands for (the comments of lines 42, 45 and 48).
FindBasePath(e) ==
    IF e.frozen
    THEN IF e.hasMeipass
         THEN Detected("FrozenOneFile", TRUE, e.meipass)
         ELSE Detected("FrozenStandalone", TRUE, Parent(e.executable))
    ELSE IF e.nxcImport = "ok"
         THEN Detected("SourceCheckout", TRUE, Parent(Parent(e.nxcFile)))
         ELSE Detected("SourceCheckout", TRUE, Parent(Parent(Parent(e.rmFile))))

\* A slip in lines 35-40: the script's own directory is taken without
\* asking where the package is.
BootBase_ScriptDir(e, fsys) ==
    IF e.frozen
    THEN IF e.hasMeipass
         THEN Detected("FrozenOneFile", TRUE, e.meipass)
         ELSE Detected("FrozenStandalone", TRUE, Parent(e.executable))
    ELSE Detected("SourceCheckout", TRUE, Parent(e.scriptFile))

\* initialize_path_independence, lines 24-55: the base it settles on, if any,
\* and whether it printed a warning.
BootBase(e, fsys) ==
    IF e.frozen
    THEN IF e.hasMeipass
         THEN Detected("FrozenOneFile", TRUE, e.meipass)
         ELSE Detected("FrozenStandalone", TRUE, Parent(e.executable))
    ELSE IF e.nxcImport = "ok"
         THEN Detected("SourceCheckout", TRUE, Parent(Parent(e.nxcFile)))
         ELSE IF e.nxcImport = "ImportError"
                 /\ Exists(Join(Parent(e.scriptFile), "nxc"), fsys)
              THEN Detected("SourceCheckout", TRUE, Parent(e.scriptFile))
              ELSE Detected("SourceCheckout", FALSE, NoPath)

\* lines 50-51 and 53-55: the two warnings
BootWarns(e, fsys) == ~e.frozen /\ e.nxcImport # "ok" /\ ~BootBase(e, fsys).hasBase

\* lines 32-33, 39-40, 47-48: if str(base_path) not in sys.path: insert(0, ..)
InsertFirst(sp, d) ==
    IF \E i \in 1..Len(sp) : sp[i] = d.base THEN sp ELSE <<d.base>> \o sp

NoBoot == [done |-> FALSE, mode |-> "unset", hasBase |-> FALSE,
           base |-> NoPath, warned |-> FALSE]

\* run_netexec.py line 59: initialize_path_independence() at import
InitializePathIndependence ==
    /\ ~boot.done
    /\ LET d == BootBase(env, fs) IN
        /\ boot' = [done |-> TRUE, mode |-> d.mode, hasBase |-> d.hasBase,
                    base |-> d.base, warned |-> BootWarns(env, fs)]
        /\ sys_path' = IF d.hasBase THEN InsertFirst(sys_path, d) ELSE sys_path
    /\ UNCHANGED <<notResolver, env, fs, cls_instance, resource_manager, objs, nobjs, pcR,
                   kindR, selfR, retR, naccess, returned, detections>>

\* ------------------------------------------------------------- resolver
\* Object references: 0 is None, n > 0 the n-th ResourceManager created.
None == 0
MaxObjs == NumThreads * MaxAccess
\* What one accessor call handed back.
Got(kind, obj) == [kind |-> kind, obj |-> obj]
NewObj == [has_base |-> FALSE, _base_path |-> NoPath, mode |-> "unset",
           has_frozen |-> FALSE, _is_frozen |-> FALSE]

\* The interpreter has started the script: no detection has run and no
\* ResourceManager exists.
ResolverFresh ==
    /\ sys_path = <<Parent(env.scriptFile)>>
    /\ boot = NoBoot
    /\ cls_instance = None
    /\ resource_manager = None
    /\ objs = [i \in 1..MaxObjs |-> NewObj]
    /\ nobjs = 0
    /\ pcR = [t \in Threads |-> "idle"]
    /\ kindR = [t \in Threads |-> "none"]
    /\ selfR = [t \in Threads |-> None]
    /\ retR = [t \in Threads |-> None]
    /\ naccess = [t \in Threads |-> 0]
    /\ returned = [t \in Threads |-> << >>]
    /\ detections = 0

InitResolver(envs) ==
    /\ env \in envs
    /\ \E beside \in BOOLEAN : fs = FsOf(env, beside)
    /\ ResolverFresh

\* A thread calls get_resource_manager() (kind "get") or ResourceManager()
\* (kind "ctor").
AccessStart(t, kind, limit) ==
    /\ pcR[t] = "idle"
    /\ naccess[t] < limit
    /\ naccess' = [naccess EXCEPT ![t] = @ + 1]
    /\ kindR' = [kindR EXCEPT ![t] = kind]
    /\ selfR' = [selfR EXCEPT ![t] = None]
    /\ retR' = [retR EXCEPT ![t] = None]
    /\ pcR' = [pcR EXCEPT ![t] = IF kind = "get" THEN "g_check" ELSE "n_check"]
    /\ UNCHANGED <<notResolver, env, fs, sys_path, boot, cls_instance, resource_manager,
                   objs, nobjs, returned, detections>>

\* get_resource_manager, line 134: if _resource_manager is None
G_Check(t) ==
    /\ pcR[t] = "g_check"
    /\ pcR' = [pcR EXCEPT ![t] = IF resource_manager = None THEN "n_check"
                                                           ELSE "g_return"]
    /\ UNCHANGED <<notResolver, env, fs, sys_path, boot, cls_instance, resource_manager,
                   objs, nobjs, kindR, selfR, retR, naccess, returned,
                   detections>>

\* A slip in line 23: the instance is built on every call.
N_Check_Always(t) ==
    /\ pcR[t] = "n_check"
    /\ pcR' = [pcR EXCEPT ![t] = "n_create"]
    /\ UNCHANGED <<notResolver, env, fs, sys_path, boot, cls_instance,
                   resource_manager, objs, nobjs, kindR, selfR, retR, naccess,
                   returned, detections>>

\* ResourceManager.__new__, line 23: if cls._instance is None
N_Check(t) ==
    /\ pcR[t] = "n_check"
    /\ pcR' = [pcR EXCEPT ![t] = IF cls_instance = None THEN "n_create"
                                                       ELSE "n_return"]
    /\ UNCHANGED <<notResolver, env, fs, sys_path, boot, cls_instance, resource_manager,
                   objs, nobjs, kindR, selfR, retR, naccess, returned,
                   detections>>

\* line 24: cls._instance = super(ResourceManager, cls).__new__(cls)
N_Create(t) ==
    /\ pcR[t] = "n_create"
    /\ nobjs < MaxObjs
    /\ nobjs' = nobjs + 1
    /\ objs' = [objs EXCEPT ![nobjs + 1] = NewObj]
    /\ cls_instance' = nobjs + 1
    /\ pcR' = [pcR EXCEPT ![t] = "n_load"]
    /\ UNCHANGED <<notResolver, env, fs, sys_path, boot, resource_manager, kindR, selfR,
                   retR, naccess, returned, detections>>

\* line 25: cls._instance._initialize() -- the receiver is read from the
\* class attribute
N_Load(t) ==
    /\ pcR[t] = "n_load"
    /\ selfR' = [selfR EXCEPT ![t] = cls_instance]
    /\ pcR' = [pcR EXCEPT ![t] = "i_base"]
    /\ UNCHANGED <<notResolver, env, fs, sys_path, boot, cls_instance, resource_manager,
                   objs, nobjs, kindR, retR, naccess, returned, detections>>

\* _initialize, line 30: self._base_path = self._find_base_path()
I_Base(t) ==
    /\ pcR[t] = "i_base"
    /\ LET d == FindBasePath(env) IN
        objs' = [objs EXCEPT ![selfR[t]].has_base = TRUE,
                             ![selfR[t]]._base_path = d.base,
                             ![selfR[t]].mode = d.mode]
    /\ detections' = detections + 1
    /\ pcR' = [pcR EXCEPT ![t] = "i_frozen"]
    /\ UNCHANGED <<notResolver, env, fs, sys_path, boot, cls_instance, resource_manager,
                   nobjs, kindR, selfR, retR, naccess, returned>>

\* _initialize, line 31: self._is_frozen = getattr(sys, 'frozen', False)
I_Frozen(t) ==
    /\ pcR[t] = "i_frozen"
    /\ objs' = [objs EXCEPT ![selfR[t]].has_frozen = TRUE,
                            ![selfR[t]]._is_frozen = env.frozen]
    /\ pcR' = [pcR EXCEPT ![t] = "n_return"]
    /\ UNCHANGED <<notResolver, env, fs, sys_path, boot, cls_instance, resource_manager,
                   nobjs, kindR, selfR, retR, naccess, returned, detections>>

\* line 26: return cls._instance; a direct ResourceManager() call ends here
N_Return(t) ==
    /\ pcR[t] = "n_return"
    /\ retR' = [retR EXCEPT ![t] = cls_instance]
    /\ IF kindR[t] = "ctor"
       THEN /\ returned' = [returned EXCEPT ![t] =
                                Append(@, Got("ctor", cls_instance))]
            /\ pcR' = [pcR EXCEPT ![t] = "idle"]
       ELSE /\ returned' = returned
            /\ pcR' = [pcR EXCEPT ![t] = "g_assign"]
    /\ UNCHANGED <<notResolver, env, fs, sys_path, boot, cls_instance, resource_manager,
                   objs, nobjs, kindR, selfR, naccess, detections>>

\* get_resource_manager, line 135: _resource_manager = ResourceManager()
G_Assign(t) ==
    /\ pcR[t] = "g_assign"
    /\ resource_manager' = retR[t]
    /\ pcR' = [pcR EXCEPT ![t] = "g_return"]
    /\ UNCHANGED <<notResolver, env, fs, sys_path, boot, cls_instance, objs, nobjs, kindR,
                   selfR, retR, naccess, returned, detections>>

\* line 136: return _resource_manager
G_Return(t) ==
    /\ pcR[t] = "g_return"
    /\ returned' = [returned EXCEPT ![t] = Append(@, Got("get", resource_manager))]
    /\ pcR' = [pcR EXCEPT ![t] = "idle"]
    /\ UNCHANGED <<notResolver, env, fs, sys_path, boot, cls_instance, resource_manager,
                   objs, nobjs, kindR, selfR, retR, naccess, detections>>

\* One step of an accessor call of thread t.
ResolverStep(t) ==
    \/ \E kind \in {"get", "ctor"} : AccessStart(t, kind, MaxAccess)
    \/ G_Check(t)
    \/ N_Check(t)
    \/ N_Create(t)
    \/ N_Load(t)
    \/ I_Base(t)
    \/ I_Frozen(t)
    \/ N_Return(t)
    \/ G_Assign(t)
    \/ G_Return(t)

\* ------------------------------------------------- resolver operations
\* The right operand of Path / str: a relative or an absolute path.
RelArg(abs, parts) == [abs |-> abs, parts |-> parts]
\* Path / str: an absolute right operand replaces the left one.
JoinPath(p, r) == IF r.abs THEN r.parts ELSE p \o r.parts

\* os.mkdir(p): the error the system call gives, or "ok".  An existing
\* entry is reported before the permission of the parent is asked.
OsMkdir(p, fsys, den) ==
    IF Len(p) = 0 THEN "EEXIST"
    ELSE IF Parent(p) \notin fsys THEN "ENOENT"
    ELSE IF p \in fsys THEN "EEXIST"
    ELSE IF Parent(p) \in den THEN "EACCES"
    ELSE "ok"

\* What a mkdir call left: whether it returned, the directories on disk,
\* and the error it raised.
Made(ok, fsys, err) == [ok |-> ok, fs |-> fsys, err |-> err]

\* A slip in lines 95, 99 and 123: mkdir() without parents=True.
MkdirParents_NoParents(p, fsys, den) ==
    LET e == OsMkdir(p, fsys, den) IN
    IF e = "ok" THEN Made(TRUE, fsys \cup {p}, "none")
    ELSE IF p \in fsys THEN Made(TRUE, fsys, "none")
    ELSE Made(FALSE, fsys, e)

\* Path.mkdir(parents=True, exist_ok=True), lines 95, 99 and 123: os.mkdir;
\* on FileNotFoundError the parent is made first and os.mkdir repeated; any
\* other OSError is swallowed when the path is a directory.
RECURSIVE MkdirParents(_, _, _)
MkdirParents(p, fsys, den) ==
    LET e == OsMkdir(p, fsys, den) IN
    CASE e = "ok" -> Made(TRUE, fsys \cup {p}, "none")
      [] e = "ENOENT" ->
            LET up == MkdirParents(Parent(p), fsys, den)
                e2 == OsMkdir(p, up.fs, den)
            IN  IF ~up.ok THEN up
                ELSE IF e2 = "ok" THEN Made(TRUE, up.fs \cup {p}, "none")
                ELSE IF p \in up.fs THEN Made(TRUE, up.fs, "none")
                ELSE Made(FALSE, up.fs, e2)
      [] OTHER -> IF p \in fsys THEN Made(TRUE, fsys, "none")
                  ELSE Made(FALSE, fsys, e)

\* base_path, lines 57-60
BasePathOf(o) == o._base_path
\* A slip in line 65: the package directory taken to be the base itself.
NxcPathOf_Base(o) == BasePathOf(o)
\* nxc_path, lines 62-65
NxcPathOf(o) == Join(BasePathOf(o), "nxc")
\* A slip in line 70: the marker read again on every call.
IsFrozenOf_Live(o, e) == e.frozen
\* is_frozen, lines 67-70
IsFrozenOf(o, e) == o._is_frozen
\* get_protocols_path, lines 72-74
ProtocolsPathOf(o) == Join(NxcPathOf(o), "protocols")
\* get_modules_path, lines 76-78
ModulesPathOf(o) == Join(NxcPathOf(o), "modules")
\* get_data_path, lines 80-82
DataPathOf(o) == Join(NxcPathOf(o), "data")
\* A slip in lines 91-99: the workspace under the base in every mode.
DbDirOf_Workspace(o, e) == Join(BasePathOf(o), "workspace")
\* get_db_path, lines 91-99: the directory it goes on to create
DbDirOf(o, e) ==
    IF IsFrozenOf(o, e)
    THEN Join(e.userHome, ".nxc")
    ELSE Join(BasePathOf(o), "workspace")
\* resolve_path, line 111
ResolvePathOf(o, r) == JoinPath(NxcPathOf(o), r)

\* The latest operation: its name and argument, the path or flag it
\* returned, whether it raised instead and with what error, and the
\* directories on disk and the markers of the process when it was called.
Markers(e) == [frozen |-> e.frozen, hasMeipass |-> e.hasMeipass]
Op(op, arg, path, flag, made, before, markers) ==
    [op |-> op, arg |-> arg, path |-> IF made.ok THEN path ELSE NoPath,
     flag |-> flag, raised |-> ~made.ok, err |-> made.err, before |-> before,
     markers |-> markers]
NoArg == RelArg(FALSE, << >>)
NoOp ==
    Op("none", NoArg, NoPath, FALSE, Made(TRUE, {}, "none"), {},
       [frozen |-> FALSE, hasMeipass |-> FALSE])

InitPaths(denials) ==
    /\ denied \in denials
    /\ last = NoOp
    /\ nops = 0
    /\ env0 = env

\* The singleton the module-level accessor hands out, once it is built.
Ready == resource_manager # None /\ pcR[MainThread] = "idle"
Rm == objs[resource_manager]

\* One operation on the singleton, by the main thread.
Operate(op, arg, path, flag, made) ==
    /\ Ready
    /\ nops < MaxOps
    /\ last' = Op(op, arg, path, flag, made, fs, Markers(env))
    /\ fs' = made.fs
    /\ nops' = nops + 1
    /\ UNCHANGED <<notPaths, denied, env0, env, sys_path, boot, cls_instance,
                   resource_manager, objs, nobjs, pcR, kindR, selfR, retR,
                   naccess, returned, detections>>

Same(fsys) == Made(TRUE, fsys, "none")

BasePath == Operate("base_path", NoArg, BasePathOf(Rm), FALSE, Same(fs))
NxcPath == Operate("nxc_path", NoArg, NxcPathOf(Rm), FALSE, Same(fs))
IsFrozen == Operate("is_frozen", NoArg, NoPath, IsFrozenOf(Rm, env), Same(fs))
GetProtocolsPath ==
    Operate("get_protocols_path", NoArg, ProtocolsPathOf(Rm), FALSE, Same(fs))
GetModulesPath ==
    Operate("get_modules_path", NoArg, ModulesPathOf(Rm), FALSE, Same(fs))
GetDataPath == Operate("get_data_path", NoArg, DataPathOf(Rm), FALSE, Same(fs))
\* get_db_path, lines 91-99: the directory is made, then returned
GetDbPath ==
    Operate("get_db_path", NoArg, DbDirOf(Rm, env), FALSE,
            MkdirParents(DbDirOf(Rm, env), fs, denied))
ResolvePath(r) ==
    Operate("resolve_path", r, ResolvePathOf(Rm, r), FALSE, Same(fs))
\* ensure_directory, lines 123-124
EnsureDirectory(p) ==
    Operate("ensure_directory", RelArg(TRUE, p), p, FALSE,
            MkdirParents(p, fs, denied))

\* Something sets or clears sys.frozen or sys._MEIPASS after the singleton
\* was built, while operations are still to come.
MarkersChange(fr, hm) ==
    /\ Ready
    /\ nops < MaxOps
    /\ <<fr, hm>> # <<env.frozen, env.hasMeipass>>
    /\ env' = [env EXCEPT !.frozen = fr, !.hasMeipass = hm]
    /\ UNCHANGED <<notPaths, pathVars, fs, sys_path, boot, cls_instance,
                   resource_manager, objs, nobjs, pcR, kindR, selfR, retR,
                   naccess, returned, detections>>

\* The arguments the operations are called with.
ResolveArgs ==
    {RelArg(FALSE, << >>), RelArg(FALSE, <<"protocols">>),
     RelArg(FALSE, <<"protocols", "smb">>), RelArg(TRUE, <<"etc">>)}
EnsureArgs(e) ==
    {e.userHome, Join(Join(e.userHome, ".nxc"), "logs"),
     Join(FindBasePath(e).base, "workspace"), <<"srv", "nxc", "db">>}

\* One step of the code that uses the resolver: it gets the singleton, then
\* operates on it.
PathsStep ==
    \/ AccessStart(MainThread, "get", MaxGets)
    \/ G_Check(MainThread)
    \/ N_Check(MainThread)
    \/ N_Create(MainThread)
    \/ N_Load(MainThread)
    \/ I_Base(MainThread)
    \/ I_Frozen(MainThread)
    \/ N_Return(MainThread)
    \/ G_Assign(MainThread)
    \/ G_Return(MainThread)
    \/ BasePath
    \/ NxcPath
    \/ IsFrozen
    \/ GetProtocolsPath
    \/ GetModulesPath
    \/ GetDataPath
    \/ GetDbPath
    \/ \E r \in ResolveArgs : ResolvePath(r)
    \/ \E p \in EnsureArgs(env0) : EnsureDirectory(p)
    \/ \E fr \in BOOLEAN, hm \in BOOLEAN : MarkersChange(fr, hm)

\* The environments the operations are exercised in: every marker
\* combination with the user's home apart from the installation or holding
\* it, the one-file bundle also with its extraction directory equal to the
\* executable's directory, the source checkout also with the package not
\* importable.
PathsEnv(fr, hm, mei, imp, uh) ==
    MakeEnv(fr, hm, mei, <<"opt", "app">>, imp, <<"site">>, <<"opt", "app">>,
            <<"site">>, <<"opt", "app">>, uh)
EnvsPaths ==
    {PathsEnv(fr, hm, <<"tmp", "onefile">>, "ok", uh) :
        fr \in BOOLEAN, hm \in BOOLEAN, uh \in {HomeDir, <<"opt", "app">>}}
    \cup {PathsEnv(TRUE, TRUE, <<"opt", "app">>, "ok", uh) :
            uh \in {HomeDir, <<"opt", "app">>}}
    \cup {PathsEnv(FALSE, FALSE, <<"tmp", "onefile">>, "ImportError", uh) :
            uh \in {HomeDir, <<"opt", "app">>}}

\* The directories a complete installation has under base b.
Bundle(b) == {Join(Join(b, "nxc"), d) : d \in {"data", "protocols", "modules"}}
\* The disk before the first run, with the bundle in place but for the data
\* directory, with the whole bundle, and after an earlier run that left the
\* state directories.
Layouts(e) ==
    LET b == FindBasePath(e).base IN
    {FsOf(e, FALSE),
     Tree(FsOf(e, FALSE) \cup (Bundle(b) \ {Join(Join(b, "nxc"), "data")})),
     Tree(FsOf(e, FALSE) \cup Bundle(b)),
     Tree(FsOf(e, FALSE) \cup Bundle(b)
            \cup {Join(e.userHome, ".nxc"), Join(b, "workspace")})}
\* Nothing refused, or new entries refused in the user's home or in the
\* base.
Denials(e) == {{}, {e.userHome}, {FindBasePath(e).base}}

\* ------------------------------------------------------------ self-test
\* TestStatus
Statuses == {"PASS", "FAIL", "WARN", "SKIP"}
TestResult(name, status) == [name |-> name, status |-> status]

\* sum(1 for r in self.results if r.status == status)
CountStatus(rs, status) ==
    Cardinality({i \in 1..Len(rs) : rs[i].status = status})

\* A slip in the comparison: exactly 80% does not pass.
MeetsThreshold_Strict(passed, failed, total) ==
    failed = 0 /\ 10 * passed > 8 * total

\* run_all_tests line 415 and _print_summary line 455:
\*     failed == 0 and passed >= (total * 0.8)
\* total * 0.8 is a double; for every total below 2^40 it is the integer
\* 4 * total / 5 exactly when that is an integer and off every integer by
\* more than the rounding error otherwise, so the comparison with the
\* integer passed is the exact one.
MeetsThreshold(passed, failed, total) ==
    failed = 0 /\ 10 * passed >= 8 * total

\* run_all_tests, lines 410-415
OverallSuccess(rs) ==
    MeetsThreshold(CountStatus(rs, "PASS"), CountStatus(rs, "FAIL"), Len(rs))

\* _print_summary, lines 446-460: the verdict line
VerdictLine(rs) ==
    LET total == Len(rs)
        passed == CountStatus(rs, "PASS")
        failed == CountStatus(rs, "FAIL")
    IN  IF MeetsThreshold(passed, failed, total)
        THEN "[SUCCESS] Self-test PASSED - System ready!"
        ELSE IF failed = 0
             THEN "[WARNING] Self-test PASSED with warnings"
             ELSE "[FAILED] Self-test FAILED - Issues detected"

\* n results of one status
Repeat(status, n) == [i \in 1..n |-> TestResult("check", status)]
Reverse(rs) == [i \in 1..Len(rs) |-> rs[Len(rs) + 1 - i]]
Tallies ==
    {ty \in [Statuses -> 0..MaxResults] :
        ty["PASS"] + ty["FAIL"] + ty["WARN"] + ty["SKIP"] <= MaxResults}
ListOf(ty) ==
    Repeat("PASS", ty["PASS"]) \o Repeat("WARN", ty["WARN"])
        \o Repeat("FAIL", ty["FAIL"]) \o Repeat("SKIP", ty["SKIP"])
NoTally == [st \in Statuses |-> 0]

\* The log of run_netexec calls of a behaviour that keeps none.
Unlogged == <<"unlogged">>

\* A runner whose checks have recorded their results (lines 397-404 done).
InitSelfTest(tallies) ==
    /\ tally \in tallies
    /\ results \in {ListOf(tally), Reverse(ListOf(tally))}
    /\ pcT = "summary"
    /\ printed = "nothing"
    /\ overall = FALSE
    /\ invoked = Unlogged

\* run_all_tests, line 407: self._print_summary()
PrintSummary ==
    /\ pcT = "summary"
    /\ printed' = VerdictLine(results)
    /\ pcT' = "verdict"
    /\ UNCHANGED <<notSelfTest, results, overall, tally, invoked>>

\* run_all_tests, lines 410-415: return failed == 0 and passed >= total * 0.8
ReturnOverall ==
    /\ pcT = "verdict"
    /\ overall' = OverallSuccess(results)
    /\ pcT' = "done"
    /\ UNCHANGED <<notSelfTest, results, printed, tally, invoked>>

\* ------------------------------------------------- the self-test battery
\* What a check reads of an InvocationResult: the returncode, and of the
\* captured stdout its length and the words it looks for.
Banner == "Yippie-Ki-Yay"
\* A slip in line 95: the length of stdout is not looked at.
ProtocolStatus_CodeOnly(r) == IF r.returncode \in {0, 2} THEN "PASS" ELSE "FAIL"
\* line 95: len(result['stdout']) > 100
HelpThreshold == 100
LongText == HelpThreshold + 1
ShortText == HelpThreshold \div 2
Text(len, words) == [len |-> len, words |-> words]
Invocation(rc, out) == [returncode |-> rc, stdout |-> out]
\* --help and --version as the tool answers them, an argument error with
\* the usage text, a module listing, and failures with little or no output.
Invocations ==
    {Invocation(0, Text(LongText, {"usage:"})),
     Invocation(0, Text(ShortText, {Banner})),
     Invocation(2, Text(LongText, {"usage:"})),
     Invocation(0, Text(LongText, {"modules"})),
     Invocation(1, Text(0, {})),
     Invocation(OddCode, Text(ShortText, {})),
     Invocation(OddCode, Text(0, {}))}

\* self.protocols, line 46
Protocols ==
    <<"ftp", "ldap", "mssql", "nfs", "rdp", "smb", "ssh", "vnc", "winrm", "wmi">>
ProtocolSet == {Protocols[i] : i \in 1..Len(Protocols)}
\* The answers to the ten "<protocol> --help" invocations: one answer for
\* the protocols of a set, another for the rest.
OddProtocols == {"ftp", "smb", "wmi"}
ProtocolAnswers ==
    {[p \in ProtocolSet |-> IF p \in odd THEN b ELSE g] :
        odd \in {{}} \cup {{p} : p \in OddProtocols},
        g \in Invocations, b \in Invocations}

\* A run_netexec call a check made: its argument vector and what it got.
\* The calls of the check that ran last are kept (history, not program
\* state) in the behaviours that begin with a log, and not otherwise.
Called(a, r) == [args |-> a, result |-> r]
Log(calls) == IF invoked = Unlogged THEN invoked ELSE calls

\* A slip in _add_result: the result is put in front.
AddResult_InFront(rs, name, status) == <<TestResult(name, status)>> \o rs
\* _add_result, lines 49-51
AddResult(rs, name, status) == Append(rs, TestResult(name, status))

\* lines 60 and 75: the two conditions of test_basic_functionality
VersionStatus(r) ==
    IF r.stdout.len > 0 /\ Banner \in r.stdout.words THEN "PASS" ELSE "FAIL"
HelpStatus(r) ==
    IF r.returncode = 0 /\ "usage:" \in r.stdout.words THEN "PASS" ELSE "FAIL"
\* line 95
ProtocolStatus(r) ==
    IF r.returncode \in {0, 2} /\ r.stdout.len > HelpThreshold
    THEN "PASS" ELSE "FAIL"
\* A slip in lines 133-139: an unclear listing counted as a failure.
ModulesListStatus_Hard(r) ==
    IF "modules" \in r.stdout.words \/ r.returncode \in {0, 1}
    THEN "PASS" ELSE "FAIL"
\* lines 125 and 146
ModulesListStatus(r) ==
    IF "modules" \in r.stdout.words \/ r.returncode \in {0, 1}
    THEN "PASS" ELSE "WARN"
ModulesHelpStatus(r) ==
    IF r.returncode \in {0, 1, 2} \/ r.stdout.len > 0 THEN "PASS" ELSE "WARN"

\* A runner just constructed, lines 44-46
InitRunner(log) ==
    /\ results = << >>
    /\ pcT = "new"
    /\ printed = "nothing"
    /\ overall = FALSE
    /\ tally = NoTally
    /\ invoked = log

\* test_basic_functionality, lines 53-81
TestBasicFunctionality ==
    /\ pcT = "basic"
    /\ \E v \in Invocations, h \in Invocations :
        /\ results' = AddResult(AddResult(results, "basic_version", VersionStatus(v)),
                                "basic_help", HelpStatus(h))
        /\ invoked' = Log(<<Called(<<"--version">>, v),
                            Called(<<"--help">>, h)>>)
    /\ pcT' = "protocol"
    /\ UNCHANGED <<notSelfTest, printed, overall, tally>>

\* The results of the loop of lines 92-110 over protocols 1..n
RECURSIVE ProtocolResults(_, _, _)
ProtocolResults(rs, answers, n) ==
    IF n = 0 THEN rs
    ELSE AddResult(ProtocolResults(rs, answers, n - 1),
                   "protocol_" \o Protocols[n],
                   ProtocolStatus(answers[Protocols[n]]))

\* The calls of the loop, line 92, over protocols 1..n
RECURSIVE ProtocolCalls(_, _)
ProtocolCalls(answers, n) ==
    IF n = 0 THEN << >>
    ELSE Append(ProtocolCalls(answers, n - 1),
                Called(<<Protocols[n], "--help">>, answers[Protocols[n]]))

\* test_protocol_availability, lines 83-113
TestProtocolAvailability ==
    /\ pcT = "protocol"
    /\ \E answers \in ProtocolAnswers :
        /\ results' = ProtocolResults(results, answers, Len(Protocols))
        /\ invoked' = Log(ProtocolCalls(answers, Len(Protocols)))
    /\ pcT' = "module"
    /\ UNCHANGED <<notSelfTest, printed, overall, tally>>

\* test_module_system, lines 115-151
TestModuleSystem ==
    /\ pcT = "module"
    /\ \E l \in Invocations, h \in Invocations :
        /\ results' = AddResult(AddResult(results, "modules_list", ModulesListStatus(l)),
                                "modules_help", ModulesHelpStatus(h))
        /\ invoked' = Log(<<Called(<<"smb", "-L">>, l),
                            Called(<<"smb", "-M", "spider_plus", "--help">>, h)>>)
    /\ pcT' = "path"
    /\ UNCHANGED <<notSelfTest, printed, overall, tally>>

\* A slip in lines 166-168: the code roots are looked at in every mode.
RootsChecked_Always(o, e) == TRUE
\* lines 166-168: "... if not rm.is_frozen else True"
RootsChecked(o, e) == ~IsFrozenOf(o, e)

\* lines 164-172: the checks dict and all(checks.values()), given what
\* get_db_path made of the disk
AllPathsPass(o, e, fsys, made) ==
    /\ Exists(BasePathOf(o), fsys)
    /\ RootsChecked(o, e) => Exists(NxcPathOf(o), fsys)
    /\ RootsChecked(o, e) => Exists(ProtocolsPathOf(o), fsys)
    /\ RootsChecked(o, e) => Exists(ModulesPathOf(o), fsys)
    /\ Exists(DbDirOf(o, e), made.fs)

\* lines 158-212: Pass when every check holds, Fail when one does not or
\* when an operation raised
PathIndependenceStatus(o, e, fsys, made) ==
    IF made.ok /\ AllPathsPass(o, e, fsys, made) THEN "PASS" ELSE "FAIL"

\* test_path_independence, lines 153-212, once get_resource_manager() of
\* line 161 has returned: get_db_path (line 169) makes its directory
TestPathIndependence ==
    /\ pcT = "path"
    /\ Ready
    /\ LET made == MkdirParents(DbDirOf(Rm, env), fs, denied) IN
        /\ results' = AddResult(results, "path_independence",
                                PathIndependenceStatus(Rm, env, fs, made))
        /\ fs' = made.fs
    /\ pcT' = "database"
    /\ invoked' = Log(<< >>)
    /\ UNCHANGED <<harnessVars, pathVars, mainVars, printed, overall, tally,
                   env, sys_path, boot, cls_instance, resource_manager, objs,
                   nobjs, pcR, kindR, selfR, retR, naccess, returned,
                   detections>>

\* A value of os.environ: unset, or the path it names.
EnvVar(set, path) == [set |-> set, path |-> path]
Unset == EnvVar(FALSE, NoPath)

\* lines 219-263: Fail without NXC_DB, Warn when the directory is missing,
\* else Pass or Fail as writing a file into it succeeds
DatabaseStatus(v, fsys, den) ==
    IF ~v.set THEN "FAIL"
    ELSE IF ~Exists(v.path, fsys) THEN "WARN"
    ELSE IF v.path \in den THEN "FAIL"
    ELSE "PASS"

\* test_database_functionality, lines 214-263
TestDatabaseFunctionality ==
    /\ pcT = "database"
    /\ results' = AddResult(results, "database_writable",
                            DatabaseStatus(os_environ.NXC_DB, fs, denied))
    /\ pcT' = "data"
    /\ invoked' = Log(<< >>)
    /\ UNCHANGED <<notSelfTest, printed, overall, tally>>

\* lines 276-313: Warn without the data directory or without a file in it
DataFilesStatus(o, fsys, hasFiles) ==
    IF Exists(DataPathOf(o), fsys) /\ hasFiles THEN "PASS" ELSE "WARN"

\* test_data_files, lines 265-321; get_resource_manager() of line 272 finds
\* the singleton built for test 4 and returns it (lines 134-136)
TestDataFiles ==
    /\ pcT = "data"
    /\ Ready
    /\ \E hasFiles \in BOOLEAN :
        results' = AddResult(results, "data_files",
                             DataFilesStatus(Rm, fs, hasFiles))
    /\ pcT' = "argparse"
    /\ invoked' = Log(<< >>)
    /\ UNCHANGED <<notSelfTest, printed, overall, tally>>

\* line 339: a test case counts when the call did not crash
ParsedOk(r) == r.returncode \in {0, 1, 2} \/ r.stdout.len > 0

\* What the tool answers to the three test cases of lines 328-332: a usage
\* error, a failed run, and exits with an unexpected code with and without
\* output.
ParsingAnswers ==
    {Invocation(2, Text(LongText, {"usage:"})), Invocation(1, Text(0, {})),
     Invocation(OddCode, Text(ShortText, {})), Invocation(OddCode, Text(0, {}))}

\* test_argument_parsing, lines 323-356
TestArgumentParsing ==
    /\ pcT = "argparse"
    /\ \E a \in ParsingAnswers, b \in ParsingAnswers, c \in ParsingAnswers :
        /\ results' = AddResult(results, "argument_parsing",
                                IF ParsedOk(a) /\ ParsedOk(b) /\ ParsedOk(c)
                                THEN "PASS" ELSE "WARN")
        /\ invoked' =
              Log(<<Called(<<"smb", "127.0.0.1", "-u", "test", "-p", "test">>, a),
                    Called(<<"ldap", "127.0.0.1", "-u", "test", "-p", "test">>, b),
                    Called(<<"--threads", "10", "smb", "--help">>, c)>>)
    /\ pcT' = "capture"
    /\ UNCHANGED <<notSelfTest, printed, overall, tally>>

\* test_output_capture, lines 358-388: the result is a dict with a
\* returncode; Pass when stdout is not empty
TestOutputCapture ==
    /\ pcT = "capture"
    /\ \E r \in Invocations :
        /\ results' = AddResult(results, "output_capture",
                                IF r.stdout.len > 0 THEN "PASS" ELSE "FAIL")
        /\ invoked' = Log(<<Called(<<"--help">>, r)>>)
    /\ pcT' = "summary"
    /\ UNCHANGED <<notSelfTest, printed, overall, tally>>

\* --------------------------------------------------- the bootstrap main()
\* A slip in line 212: the script name is passed on as well.
MainArgs_All(argv) == argv
\* line 212: args = sys.argv[1:]
MainArgs(argv) == Tail(argv)
\* A slip in line 210: the verdict is inverted.
ExitCodeOfVerdict_Inverted(ok) == IF ok THEN 1 ELSE 0
\* line 210: sys.exit(0 if success else 1)
ExitCodeOfVerdict(ok) == IF ok THEN 0 ELSE 1
\* sys.exit(n): the status the process ends with is n modulo 256
ExitStatus(n) == n % ExitStatuses

NoExit == [exited |-> FALSE, status |-> 0]
InitMain(dbs) ==
    /\ pcM = "start"
    /\ main_args = << >>
    /\ success = FALSE
    /\ test_results = << >>
    /\ exit_code = NoExit
    /\ os_environ \in {[NXC_DB |-> v] : v \in dbs}

\* main(), line 207: if len(sys.argv) == 1
MainDispatch ==
    /\ pcM = "start"
    /\ IF Len(sys_argv) = 1
       THEN pcM' = "self_test" /\ main_args' = main_args
       ELSE pcM' = "run" /\ main_args' = MainArgs(sys_argv)
    /\ UNCHANGED <<notMain, success, test_results, exit_code, os_environ>>

\* self_test(), lines 150-152: the import succeeds and the runner is built
SelfTestEnhanced ==
    /\ pcM = "self_test"
    /\ env.frozen \/ env.nxcImport = "ok"
    /\ pcT = "new"
    /\ pcT' = "basic"
    /\ pcM' = "battery"
    /\ UNCHANGED <<harnessVars, resolverVars, pathVars, results, printed,
                   overall, tally, invoked, main_args, success, test_results,
                   exit_code, os_environ>>

\* The fallback's test_results: name and outcome of each check, lines
\* 164-191
BasicResults(v, h, answers) ==
    <<[name |-> "version", pass |-> v.stdout.len > 0],
      [name |-> "help",
       pass |-> h.returncode = 0 /\ "usage:" \in h.stdout.words]>>
    \o [i \in 1..Len(Protocols) |->
            [name |-> "protocol_" \o Protocols[i],
             pass |-> ProtocolStatus(answers[Protocols[i]]) = "PASS"]]
\* line 198: all(test_results.values())
AllPass(trs) == \A i \in 1..Len(trs) : trs[i].pass

\* self_test(), lines 155-198: the import of line 150 raised ImportError,
\* the basic self-test runs
SelfTestBasic ==
    /\ pcM = "self_test"
    /\ \E v \in Invocations, h \in Invocations, answers \in ProtocolAnswers :
        /\ test_results' = BasicResults(v, h, answers)
        /\ success' = AllPass(BasicResults(v, h, answers))
    /\ pcM' = "exit"
    /\ UNCHANGED <<notMain, main_args, exit_code, os_environ>>

\* lines 153 and 209: run_all_tests() returns into success
SelfTestReturn ==
    /\ pcM = "battery"
    /\ pcT = "done"
    /\ success' = overall
    /\ pcM' = "exit"
    /\ UNCHANGED <<notMain, main_args, test_results, exit_code, os_environ>>

\* line 210: sys.exit(0 if success else 1)
MainExitSelfTest ==
    /\ pcM = "exit"
    /\ exit_code' = [exited |-> TRUE,
                     status |-> ExitStatus(ExitCodeOfVerdict(success))]
    /\ pcM' = "exited"
    /\ UNCHANGED <<notMain, main_args, success, test_results, os_environ>>

\* line 213: result = run_netexec(args)
MainCall ==
    /\ pcM = "run"
    /\ ncalls[MainThread] = 0
    /\ Call(MainThread, main_args, 1)

\* lines 216-217: if result['stdout']: print(result['stdout'], end='')
MainPrintOut ==
    /\ pcM = "run"
    /\ pc[MainThread] = "idle"
    /\ completion[MainThread] = "returned"
    /\ content' = [content EXCEPT ![sys_stdout] = @ \o result[MainThread].stdout]
    /\ pcM' = "print_err"
    /\ UNCHANGED <<resolverVars, selfTestVars, pathVars, main_args, success,
                   test_results, exit_code, os_environ, sys_stdout,
                   sys_stderr, sys_argv, pc, args, original_argv,
                   old_stdout, old_stderr, stdout_capture, stderr_capture,
                   result, pending, ncalls, pre, wrote, outcome, fault,
                   completion>>

\* lines 218-219: if result['stderr']: print(result['stderr'], end='',
\* file=sys.stderr)
MainPrintErr ==
    /\ pcM = "print_err"
    /\ content' = [content EXCEPT ![sys_stderr] = @ \o result[MainThread].stderr]
    /\ pcM' = "exit_run"
    /\ UNCHANGED <<resolverVars, selfTestVars, pathVars, main_args, success,
                   test_results, exit_code, os_environ, sys_stdout,
                   sys_stderr, sys_argv, pc, args, original_argv,
                   old_stdout, old_stderr, stdout_capture, stderr_capture,
                   result, pending, ncalls, pre, wrote, outcome, fault,
                   completion>>

\* line 221: sys.exit(result['returncode'])
MainExitRun ==
    /\ pcM = "exit_run"
    /\ exit_code' = [exited |-> TRUE,
                     status |-> ExitStatus(result[MainThread].returncode)]
    /\ pcM' = "exited"
    /\ UNCHANGED <<notMain, main_args, success, test_results, os_environ>>

\* line 213 when run_netexec lets an exception through: main() does not
\* handle it and the interpreter ends the process
MainCrash ==
    /\ pcM = "run"
    /\ pc[MainThread] = "idle"
    /\ completion[MainThread] = "raised"
    /\ pcM' = "crashed"
    /\ UNCHANGED <<notMain, main_args, success, test_results, exit_code,
                   os_environ>>

\* get_resource_manager() as test 4 calls it, line 161
GetForTest ==
    /\ pcT = "path"
    /\ ~Ready
    /\ \/ AccessStart(MainThread, "get", MaxGets)
       \/ G_Check(MainThread)
       \/ N_Check(MainThread)
       \/ N_Create(MainThread)
       \/ N_Load(MainThread)
       \/ I_Base(MainThread)
       \/ I_Frozen(MainThread)
       \/ N_Return(MainThread)
       \/ G_Assign(MainThread)
       \/ G_Return(MainThread)

\* ---------------------------------------------- patches/patch_netexec.py
\* line 86: 'NXC_DB' not in os.environ
Absent(environ) == ~environ.NXC_DB.set

\* lines 86-87: get_db_path is called, and makes its directory, only when
\* the variable is absent
PatchMade(environ, o, e, fsys, den) ==
    IF Absent(environ) THEN MkdirParents(DbDirOf(o, e), fsys, den)
                       ELSE Same(fsys)

\* lines 86-91: the variable is set to str(db_path) when it was absent and
\* get_db_path returned; an exception of get_db_path leaves the block
\* before line 88.  str() of an absolute Path and Path() of that string
\* name the same directory, so the variable is kept as the path it names.
PatchedEnviron(environ, o, e, made) ==
    IF Absent(environ) /\ made.ok
    THEN [environ EXCEPT !.NXC_DB = EnvVar(TRUE, DbDirOf(o, e))]
    ELSE environ

\* What a run of patch_database_path leaves behind for inspection: the
\* directories on disk and os.environ when it started, and whether it
\* printed the warning of line 91.
PatchRun(made, fsys, environ) ==
    [op |-> "patch_database_path", raised |-> FALSE, warned |-> ~made.ok,
     err |-> made.err, before |-> fsys, environ |-> environ]

\* patch_database_path, line 83: rm = get_resource_manager()
PatchGet ==
    \/ naccess[MainThread] = nops /\ AccessStart(MainThread, "get", MaxPatches)
    \/ G_Check(MainThread)
    \/ N_Check(MainThread)
    \/ N_Create(MainThread)
    \/ N_Load(MainThread)
    \/ I_Base(MainThread)
    \/ I_Frozen(MainThread)
    \/ N_Return(MainThread)
    \/ G_Assign(MainThread)
    \/ G_Return(MainThread)

\* patch_database_path, lines 86-91, once get_resource_manager() of line 83
\* has returned
PatchDatabasePath ==
    /\ Ready
    /\ naccess[MainThread] = nops + 1
    /\ LET made == PatchMade(os_environ, Rm, env, fs, denied) IN
        /\ os_environ' = PatchedEnviron(os_environ, Rm, env, made)
        /\ fs' = made.fs
        /\ last' = PatchRun(made, fs, os_environ)
    /\ nops' = nops + 1
    /\ UNCHANGED <<harnessVars, selfTestVars, denied, env0, env, sys_path,
                   boot, cls_instance, resource_manager, objs, nobjs, pcR,
                   kindR, selfR, retR, naccess, returned, detections, pcM,
                   main_args, success, test_results, exit_code>>

\* ------------------------------------------------------- specifications
\* The harness and the resolver, each before its first call.
HarnessAtRest ==
    /\ InitHarness
    /\ sys_stdout = Orig("out")
    /\ sys_argv = <<"run_netexec.py">>
ResolverAtRest == InitResolver({DefaultEnv}) /\ fs = FsOf(env, FALSE)
SelfTestAtRest == InitSelfTest({NoTally})
PathsAtRest == InitPaths({{}})
MainAtRest == InitMain({Unset})

\* The design's single caller: one thread drives the harness.
Init == InitHarness /\ ResolverAtRest /\ SelfTestAtRest /\ PathsAtRest /\ MainAtRest
Next == HarnessStep(MainThread)
Spec == Init /\ [][Next]_vars

\* A host process whose threads all call run_netexec.
NextHarnessConc == \E t \in Threads : HarnessStepConc(t)
SpecHarnessConc == Init /\ [][NextHarnessConc]_vars

\* Detection and the resolver singleton under a single thread, in every
\* environment.
InitResolverSeq ==
    HarnessAtRest /\ InitResolver(Envs) /\ SelfTestAtRest /\ PathsAtRest
        /\ MainAtRest
NextResolverSeq == InitializePathIndependence \/ ResolverStep(MainThread)
SpecResolver == InitResolverSeq /\ [][NextResolverSeq]_vars

\* The resolver singleton reached from several threads at once.
InitResolverConc ==
    HarnessAtRest /\ InitResolver(EnvsConc) /\ SelfTestAtRest /\ PathsAtRest
        /\ MainAtRest
NextResolverConc == InitializePathIndependence \/ \E t \in Threads : ResolverStep(t)
SpecResolverConc == InitResolverConc /\ [][NextResolverConc]_vars

\* The verdict of a finished battery, for every multiset of results.
InitVerdict ==
    HarnessAtRest /\ ResolverAtRest /\ InitSelfTest(Tallies) /\ PathsAtRest
        /\ MainAtRest
NextVerdict == PrintSummary \/ ReturnOverall
SpecVerdict == InitVerdict /\ [][NextVerdict]_vars

\* The resolver's operations on the singleton, in every mode and layout.
InitPathsSpec ==
    /\ HarnessAtRest
    /\ env \in EnvsPaths
    /\ fs \in Layouts(env)
    /\ ResolverFresh
    /\ SelfTestAtRest
    /\ InitPaths(Denials(env))
    /\ MainAtRest
NextPaths == PathsStep
SpecPaths == InitPathsSpec /\ [][NextPaths]_vars

\* The wrapper started without arguments: self-test mode, in each
\* deployment mode and layout, with NXC_DB unset or naming a directory.
SelfTestEnv(fr, hm, imp) ==
    MakeEnv(fr, hm, <<"tmp", "onefile">>, <<"opt", "app">>, imp, <<"site">>,
            <<"opt", "app">>, <<"site">>, <<"opt", "app">>, HomeDir)
EnvsSelfTest ==
    {SelfTestEnv(FALSE, FALSE, "ok"), SelfTestEnv(FALSE, FALSE, "ImportError"),
     SelfTestEnv(TRUE, TRUE, "ok"), SelfTestEnv(TRUE, FALSE, "ok")}
DbChoices(e) ==
    {Unset, EnvVar(TRUE, Join(e.userHome, ".nxc")),
     EnvVar(TRUE, Join(FindBasePath(e).base, "workspace"))}
InitSelfTestMode ==
    /\ HarnessAtRest
    /\ env \in EnvsSelfTest
    /\ fs \in Layouts(env)
    /\ ResolverFresh
    /\ InitRunner(Unlogged)
    /\ InitPaths({{}, {env.userHome}})
    /\ InitMain(DbChoices(env))
NextSelfTestMode ==
    \/ MainDispatch
    \/ SelfTestEnhanced
    \/ SelfTestBasic
    \/ TestBasicFunctionality
    \/ TestProtocolAvailability
    \/ TestModuleSystem
    \/ GetForTest
    \/ TestPathIndependence
    \/ TestDatabaseFunctionality
    \/ TestDataFiles
    \/ TestArgumentParsing
    \/ TestOutputCapture
    \/ PrintSummary
    \/ ReturnOverall
    \/ SelfTestReturn
    \/ MainExitSelfTest
SpecSelfTestMode == InitSelfTestMode /\ [][NextSelfTestMode]_vars

\* The battery in a source checkout with nxc importable, every answer of
\* the tool to every call of the checks kept in the log.
InitChecks ==
    /\ HarnessAtRest
    /\ env = DefaultEnv
    /\ fs \in Layouts(env)
    /\ ResolverFresh
    /\ InitRunner(<< >>)
    /\ PathsAtRest
    /\ MainAtRest
NextChecks ==
    \/ MainDispatch
    \/ SelfTestEnhanced
    \/ TestBasicFunctionality
    \/ TestProtocolAvailability
    \/ TestModuleSystem
    \/ GetForTest
    \/ TestPathIndependence
    \/ TestDatabaseFunctionality
    \/ TestDataFiles
    \/ TestArgumentParsing
    \/ TestOutputCapture
    \/ PrintSummary
    \/ ReturnOverall
    \/ SelfTestReturn
    \/ MainExitSelfTest
SpecChecks == InitChecks /\ [][NextChecks]_vars

\* The wrapper started with arguments: one run of the tool.
InitCli ==
    /\ InitHarness
    /\ Len(sys_argv) > 1
    /\ ResolverAtRest
    /\ InitRunner(Unlogged)
    /\ PathsAtRest
    /\ MainAtRest
NextCli ==
    \/ MainDispatch
    \/ MainCall
    \/ HarnessRun(MainThread)
    \/ MainPrintOut
    \/ MainPrintErr
    \/ MainExitRun
    \/ MainCrash
SpecCli == InitCli /\ [][NextCli]_vars

\* patch_database_path run repeatedly, in each deployment mode and layout,
\* with NXC_DB absent or naming a directory.
InitPatch ==
    /\ HarnessAtRest
    /\ env \in EnvsSelfTest
    /\ fs \in Layouts(env)
    /\ ResolverFresh
    /\ SelfTestAtRest
    /\ InitPaths(Denials(env))
    /\ InitMain(DbChoices(env))
NextPatch == PatchGet \/ PatchDatabasePath
SpecPatch == InitPatch /\ [][NextPatch]_vars

\* ------------------------------------------------- claims on the harness
\* A run_netexec call of thread t has ended: returned or unwound.
\* Two threads, each calling run_netexec once, from a process at rest.
Racers == {t \in Threads : t <= MainThread + 1}
RaceStep(t) ==
    \/ ncalls[t] = 0 /\ Call(t, ConcArgs(t), MaxConcCalls)
    \/ SetArgv(t)
    \/ CapSaveOut(t)
    \/ CapSaveErr(t)
    \/ CapAlloc(t)
    \/ CapInstallOut(t)
    \/ CapInstallErr(t)
    \/ \E fd \in Fds : MainWrite(t, fd, MaxConcWrites)
    \/ MainEnd(t, Outcome("return", PyInt(0)))
    \/ CapRestoreOut(t)
    \/ CapRestoreErr(t)
    \/ ReadOut(t)
    \/ ReadErr(t)
    \/ RestoreArgv(t)
InitRace ==
    HarnessAtRest /\ ResolverAtRest /\ SelfTestAtRest /\ PathsAtRest
        /\ MainAtRest
NextRace == \E t \in Racers : RaceStep(t)
SpecRace == InitRace /\ [][NextRace]_vars

Ended(t) == pc[t] = "idle" /\ completion[t] # "none"

\* C1: whenever a run_netexec call of the single caller has returned or
\* unwound, whatever the argument vector and whatever main() did (return,
\* SystemExit, Exception, any other BaseException, with or without a
\* harness-internal fault), sys.stdout and sys.stderr are the objects bound
\* just before the call and sys.argv has its pre-call contents.
C1_RestoresStreamsAndArgv ==
    \A t \in Threads :
        Ended(t) =>
            /\ sys_stdout = pre[t].out
            /\ sys_stderr = pre[t].err
            /\ sys_argv = pre[t].argv

\* C1 witness: a call that unwound with an uncaught BaseException after
\* main() wrote to the streams, from a pre-call state in which stdout was
\* rebound by the host, and the globals are back.
C1_Witness ==
    /\ Ended(MainThread)
    /\ completion[MainThread] = "raised"
    /\ wrote[MainThread].out # << >>
    /\ pre[MainThread].out = Orig("err")
    /\ sys_stdout = Orig("err")
    /\ sys_argv = pre[MainThread].argv
    /\ sys_argv # <<"netexec">> \o args[MainThread]

\* A call of thread t is in flight: it has rebound sys.argv (line 110) and
\* has not yet restored it (line 138).
InFlight(t) == pc[t] \notin {"idle", "set_argv"}

\* C2: at most one run_netexec call is between its rebinding of the globals
\* and its restoration of them, in every reachable state of a process whose
\* threads call run_netexec.
C2_AtMostOneInFlight == Cardinality({t \in Threads : InFlight(t)}) <= 1

C6_ExceptionTextInStderr ==
    \A t \in Threads :
        (Ended(t) /\ outcome[t].kind = "Exception" /\ fault[t] = "none")
            => /\ result[t].returncode = 1
               /\ result[t].stderr =
                     wrote[t].err \o <<Token("Exception", t, ncalls[t])>>

OfThisCall(t) ==
    \A fd \in {"stdout", "stderr"} :
        \A i \in 1..Len(result[t][fd]) :
            /\ result[t][fd][i].by = t
            /\ result[t][fd][i].call = ncalls[t]
\* Nothing has reached the stream objects the process started with.
OriginalsUntouched == \A fd \in Fds : content[Orig(fd)] = << >>

\* C23: every run_netexec call that returned a result gives as stdout and
\* stderr exactly what main() wrote to the global streams in that call, text
\* of no other call, and nothing has reached the original streams.
C23_ResultIsWhatWasWritten ==
    /\ OriginalsUntouched
    /\ \A t \in Threads :
        (Ended(t) /\ completion[t] = "returned") =>
            /\ result[t].stdout = wrote[t].out
            /\ result[t].stderr = wrote[t].err
            /\ OfThisCall(t)

\* C23 amended: the same for every call that returned a result without a
\* harness-internal fault (buffer allocation or getvalue() raising); with
\* such a fault stderr is the "Fatal error" text instead, and stdout is
\* empty unless the fault came after line 130.
C23_ResultIsWhatWasWrittenAmended ==
    /\ OriginalsUntouched
    /\ \A t \in Threads :
        (Ended(t) /\ completion[t] = "returned") =>
            /\ OfThisCall(t)
            /\ fault[t] = "none" =>
                  /\ result[t].stdout = wrote[t].out
                  /\ result[t].stderr = wrote[t].err
            /\ fault[t] # "none" =>
                  /\ result[t].stdout =
                        IF fault[t] = "read_err" THEN wrote[t].out ELSE << >>
                  /\ result[t].stderr = <<Token("Fatal", t, ncalls[t])>>

\* C23 witness: the second call of the caller returned what main() wrote to
\* both streams before it exited through SystemExit, after a first call.
C23_Witness ==
    /\ Ended(MainThread)
    /\ ncalls[MainThread] = 2
    /\ completion[MainThread] = "returned"
    /\ fault[MainThread] = "none"
    /\ outcome[MainThread].kind = "SystemExit"
    /\ wrote[MainThread].out # << >>
    /\ wrote[MainThread].err # << >>
    /\ result[MainThread].stdout = wrote[MainThread].out
    /\ result[MainThread].stderr = wrote[MainThread].err

\* Text written in the call of one thread is in the result of another.
CrossCaptured ==
    \E t \in Threads : \E fd \in {"stdout", "stderr"} :
        \E i \in 1..Len(result[t][fd]) : result[t][fd][i].by # t
\* A global is not what it was bound to before the calls began.
GlobalsStuck ==
    \/ sys_stdout # Orig("out")
    \/ sys_stderr # Orig("err")
    \/ sys_argv # <<"run_netexec.py">>
\* A call began while a call of another thread was under way.
Overlapped == \E t \in Threads : pre[t].others # {}
AllEnded == \A t \in Racers : Ended(t)

\* C27: once the two calls have ended, text of one call sits in the other
\* call's result, or a global is left bound to something else than before
\* the two calls, only if the calls overlapped; and such interleavings
\* exist (the witness).
C27_OverlapCrossesAndSticks ==
    (AllEnded /\ (CrossCaptured \/ GlobalsStuck)) => Overlapped

\* C27 witness: both calls have ended, the result of one holds text the
\* other wrote, and sys.stdout is left bound to a capture buffer.
C27_Witness ==
    /\ AllEnded
    /\ Overlapped
    /\ CrossCaptured
    /\ sys_stdout \notin {Orig("out"), Orig("err")}

\* The call of thread t met an Exception of the harness itself: the capture
\* buffers could not be set up, or reading one of them failed.
HarnessFault(t) == fault[t] \in {"setup", "read_out", "read_err"}

\* C30: a run_netexec call in which setting up the capture or reading the
\* buffers raised an Exception ends by returning a result, never by
\* raising: the result has returncode 1, its stderr begins with the "Fatal
\* error:" text, and sys.argv has its pre-call contents again.
C30_HarnessFaultIsFatalResult ==
    \A t \in Threads :
        (Ended(t) /\ HarnessFault(t)) =>
            /\ completion[t] = "returned"
            /\ result[t].returncode = 1
            /\ result[t].stderr # << >>
            /\ result[t].stderr[1].tag = "Fatal"
            /\ sys_argv = pre[t].argv

\* C30 witness: main() returned 0 after writing to stderr, reading the
\* stderr buffer then failed, and the call returned the fatal result with
\* sys.argv back to a pre-call vector that differs from the one main() saw.
C30_Witness ==
    /\ Ended(MainThread)
    /\ fault[MainThread] = "read_err"
    /\ outcome[MainThread] = Outcome("return", PyInt(0))
    /\ wrote[MainThread].err # << >>
    /\ completion[MainThread] = "returned"
    /\ result[MainThread].returncode = 1
    /\ result[MainThread].stderr[1].tag = "Fatal"
    /\ sys_argv = pre[MainThread].argv
    /\ sys_argv # <<"netexec">> \o args[MainThread]

\* ------------------------------------------------ claims on the resolver
\* Every reference handed back by an accessor call that has returned.
AllGot ==
    UNION {{returned[t][i].obj : i \in 1..Len(returned[t])} : t \in Threads}

\* C3: when several threads call get_resource_manager() / ResourceManager()
\* while no instance exists, base-path detection runs exactly once and every
\* caller receives the same single instance, under every interleaving.
C3_OneInstanceUnderThreads ==
    /\ detections <= 1
    /\ Cardinality(AllGot) <= 1

\* C4: in a single thread, after any sequence of get_resource_manager() and
\* ResourceManager() calls, every call returned the instance the first call
\* returned, and _find_base_path has run exactly once in total.
C4_SameInstanceOneDetection ==
    /\ detections <= 1
    /\ \A t \in Threads :
        returned[t] # << >> =>
            /\ detections = 1
            /\ returned[t][1].obj # None
            /\ objs[returned[t][1].obj].has_base
            /\ \A i \in 1..Len(returned[t]) :
                    returned[t][i].obj = returned[t][1].obj

\* C4 witness: a get_resource_manager() call followed by a direct
\* ResourceManager() call, both returned, one detection.
C4_Witness ==
    /\ Len(returned[MainThread]) = 2
    /\ returned[MainThread][1].kind = "get"
    /\ returned[MainThread][2].kind = "ctor"
    /\ returned[MainThread][2].obj = returned[MainThread][1].obj
    /\ detections = 1

\* What a detector settled on, once it has run: the bootstrap script's, and
\* that of every initialised ResourceManager.
Settled ==
    (IF boot.done THEN {Detected(boot.mode, boot.hasBase, boot.base)} ELSE {})
        \cup {Detected(objs[i].mode, TRUE, objs[i]._base_path) :
                i \in {j \in 1..MaxObjs : objs[j].has_base}}
Modes == {"SourceCheckout", "FrozenOneFile", "FrozenStandalone"}

\* C9: with the frozen marker and sys._MEIPASS both present the base is the
\* extraction directory (FrozenOneFile); with only the frozen marker it is
\* the directory of the running executable (FrozenStandalone); without the
\* frozen marker the mode is SourceCheckout and sys._MEIPASS changes
\* nothing.  Every marker combination gives one of the three modes.
C9_FrozenPriority ==
    \A d \in Settled :
        /\ d.mode \in Modes
        /\ (env.frozen /\ env.hasMeipass)
                => (d.mode = "FrozenOneFile" /\ d.hasBase /\ d.base = env.meipass)
        /\ (env.frozen /\ ~env.hasMeipass)
                => (d.mode = "FrozenStandalone" /\ d.hasBase
                    /\ d.base = env.exeDir)
        /\ ~env.frozen =>
                LET other == [env EXCEPT !.hasMeipass = ~env.hasMeipass] IN
                /\ d.mode = "SourceCheckout"
                /\ FindBasePath(other) = FindBasePath(env)
                /\ BootBase(other, fs) = BootBase(env, fs)

\* C9 witness: both markers present, the extraction directory differs from
\* the executable's directory, and both detectors took the extraction
\* directory.
C9_Witness ==
    /\ env.frozen /\ env.hasMeipass
    /\ env.meipass # env.exeDir
    /\ boot.done /\ boot.base = env.meipass
    /\ objs[1].has_base /\ objs[1]._base_path = env.meipass
    /\ objs[1].mode = "FrozenOneFile"

\* C10: in a non-frozen process where nxc is importable, detection gives
\* SourceCheckout with the base the directory that holds the installed
\* package, whatever the bootstrap script's directory and the working
\* directory are.
C10_SourceCheckoutFromPackage ==
    (~env.frozen /\ env.nxcImport = "ok") =>
        \A d \in Settled :
            d.mode = "SourceCheckout" /\ d.hasBase /\ d.base = env.nxcHome

\* C10 witness: the script sits alone in a directory without an nxc
\* directory, the process runs from there, and both detectors resolved to
\* the package's location elsewhere.
C10_Witness ==
    /\ ~env.frozen /\ env.nxcImport = "ok"
    /\ env.scriptDir # env.nxcHome
    /\ env.cwd = env.scriptDir
    /\ ~Exists(Join(env.scriptDir, "nxc"), fs)
    /\ boot.done /\ boot.hasBase /\ boot.base = env.nxcHome
    /\ objs[1].has_base /\ objs[1]._base_path = env.nxcHome

\* C11: in a non-frozen process where "import nxc" fails, detection does
\* not raise and settles on the directory of the running script as base,
\* mode SourceCheckout: silently when an nxc directory lies beside the
\* script, with a warning when none does.
C11_FallbackToScriptDir ==
    (~env.frozen /\ env.nxcImport # "ok") =>
        /\ \A d \in Settled :
            /\ d.mode = "SourceCheckout"
            /\ d.hasBase
            /\ d.base = Parent(env.scriptFile)
        /\ (boot.done /\ ~Exists(Join(Parent(env.scriptFile), "nxc"), fs))
                => boot.warned

\* C29: whatever the frozen marker, sys._MEIPASS, the outcome of "import
\* nxc" and the presence of an nxc directory beside the script, the base
\* directory initialize_path_independence chose is the base path every
\* ResourceManager computed with _find_base_path.
C29_DetectorsAgree ==
    boot.done =>
        \A i \in 1..MaxObjs :
            objs[i].has_base =>
                /\ boot.hasBase
                /\ boot.base = objs[i]._base_path

\* ------------------------------------------------ claims on the verdict
TallyTotal == tally["PASS"] + tally["FAIL"] + tally["WARN"] + tally["SKIP"]
TallyOf(p, f, w, k) ==
    [st \in Statuses |-> CASE st = "PASS" -> p [] st = "FAIL" -> f
                           [] st = "WARN" -> w [] OTHER -> k]

\* C8: for every multiset of results, run_all_tests returns True exactly
\* when no result is Fail and the Pass results are at least 0.8 times all
\* results (Warn and Skip count in the total only); 8 Pass + 2 Warn gives
\* True and 7 Pass + 3 Warn gives False.
C8_VerdictLaw ==
    pcT = "done" =>
        /\ overall = (tally["FAIL"] = 0 /\ 5 * tally["PASS"] >= 4 * TallyTotal)
        /\ tally = TallyOf(8, 0, 2, 0) => overall
        /\ tally = TallyOf(7, 0, 3, 0) => ~overall

\* C8 witness: the boundary, 8 Pass and 2 Warn out of 10, returned True.
C8_Witness ==
    /\ pcT = "done"
    /\ tally = TallyOf(8, 0, 2, 0)
    /\ Len(results) = 10
    /\ overall

\* The words of the three verdict lines of _print_summary (lines 456-460).
VerdictWords(line) ==
    CASE line = "[SUCCESS] Self-test PASSED - System ready!" ->
             <<"[SUCCESS]", "Self-test", "PASSED", "-", "System", "ready!">>
      [] line = "[WARNING] Self-test PASSED with warnings" ->
             <<"[WARNING]", "Self-test", "PASSED", "with", "warnings">>
      [] line = "[FAILED] Self-test FAILED - Issues detected" ->
             <<"[FAILED]", "Self-test", "FAILED", "-", "Issues", "detected">>
      [] OTHER -> << >>
\* The line says "Self-test PASSED".
AnnouncesPassed(line) ==
    \E i \in 1..Len(VerdictWords(line)) - 1 :
        SubSeq(VerdictWords(line), i, i + 1) = <<"Self-test", "PASSED">>

\* C28: for every list of results, the verdict line of _print_summary says
\* "Self-test PASSED" exactly when run_all_tests returns True, and the list
\* of results after the summary is the list before it.
C28_VerdictLineAgrees ==
    pcT = "done" =>
        /\ AnnouncesPassed(printed) <=> overall
        /\ results \in {ListOf(tally), Reverse(ListOf(tally))}

\* ------------------------------------- claims on the resolver's operations
\* p is directory b or lies below it.
Under(p, b) == Len(b) <= Len(p) /\ SubSeq(p, 1, Len(b)) = b
FrozenModes == {"FrozenOneFile", "FrozenStandalone"}
\* The latest operation was op and it returned.
Returned(op) == last.op = op /\ ~last.raised

\* C12 as stated: get_db_path returns home/.nxc in both frozen modes, never
\* a directory under the install base, and base/workspace in SourceCheckout
\* mode; the returned directory exists right after the call, and calling
\* again returns the same path without error.
C12_DbPathByMode ==
    Returned("get_db_path") =>
        /\ Rm.mode \in FrozenModes =>
                /\ last.path = Join(env.userHome, ".nxc")
                /\ ~Under(last.path, BasePathOf(Rm))
        /\ Rm.mode = "SourceCheckout" =>
                last.path = Join(BasePathOf(Rm), "workspace")
        /\ Exists(last.path, fs)
        /\ DbDirOf(Rm, env) = last.path
        /\ MkdirParents(DbDirOf(Rm, env), fs, denied) = Made(TRUE, fs, "none")

\* C12 amended: whenever get_db_path returns, it returns home/.nxc in both
\* frozen modes, never base/workspace, and a directory under the install
\* base only when the user's home itself lies under the install base; in
\* SourceCheckout mode it returns base/workspace; the returned directory
\* exists right after the call, and calling again returns the same path
\* without error and without touching the disk.
C12_DbPathByModeAmended ==
    Returned("get_db_path") =>
        /\ Rm.mode \in FrozenModes =>
                /\ last.path = Join(env.userHome, ".nxc")
                /\ last.path # Join(BasePathOf(Rm), "workspace")
                /\ Under(last.path, BasePathOf(Rm))
                        => Under(env.userHome, BasePathOf(Rm))
        /\ Rm.mode = "SourceCheckout" =>
                last.path = Join(BasePathOf(Rm), "workspace")
        /\ Exists(last.path, fs)
        /\ DbDirOf(Rm, env) = last.path
        /\ MkdirParents(DbDirOf(Rm, env), fs, denied) = Made(TRUE, fs, "none")

\* C12 witness: a frozen process installed apart from the user's home, whose
\* get_db_path call created home/.nxc and returned it.
C12_Witness ==
    /\ Returned("get_db_path")
    /\ Rm.mode \in FrozenModes
    /\ ~Under(env.userHome, BasePathOf(Rm))
    /\ last.path = Join(env.userHome, ".nxc")
    /\ ~Exists(last.path, last.before)
    /\ Exists(last.path, fs)

\* C13: every resource root the resolver returns (nxc_path, get_data_path,
\* get_db_path) is a directory that exists on disk at the moment it is
\* returned, in every mode and for every layout of the disk.
C13_RootsExist ==
    (Returned("nxc_path") \/ Returned("get_data_path")
        \/ Returned("get_db_path"))
        => Exists(last.path, fs)

\* The base the mode of the process gives: what detection finds in the
\* environment the singleton was built in.
ModeBase == FindBasePath(env0).base

\* C14 as stated: in every mode nxc_path = base/nxc, get_data_path() =
\* base/nxc/data and resolve_path(r) = base/nxc/r; with the frozen marker
\* and sys._MEIPASS both present get_data_path() lies under the extraction
\* directory and not under the executable's directory.
C14_PathsFromBase ==
    /\ Returned("nxc_path") => last.path = Join(ModeBase, "nxc")
    /\ Returned("get_data_path") =>
            /\ last.path = Join(Join(ModeBase, "nxc"), "data")
            /\ (env0.frozen /\ env0.hasMeipass) =>
                    /\ Under(last.path, env0.meipass)
                    /\ ~Under(last.path, Parent(env0.executable))
    /\ Returned("resolve_path") =>
            last.path = Join(ModeBase, "nxc") \o last.arg.parts

\* C14 amended: in every mode nxc_path = base/nxc, get_data_path() =
\* base/nxc/data, and resolve_path(r) = base/nxc/r for a relative r, r
\* itself for an absolute r; with the frozen marker and sys._MEIPASS both
\* present get_data_path() lies under the extraction directory, and under
\* the executable's directory only when the extraction directory does.
C14_PathsFromBaseAmended ==
    /\ Returned("nxc_path") => last.path = Join(ModeBase, "nxc")
    /\ Returned("get_data_path") =>
            /\ last.path = Join(Join(ModeBase, "nxc"), "data")
            /\ (env0.frozen /\ env0.hasMeipass) =>
                    /\ Under(last.path, env0.meipass)
                    /\ Under(last.path, Parent(env0.executable))
                            => Under(env0.meipass, Parent(env0.executable))
    /\ Returned("resolve_path") =>
            last.path = IF last.arg.abs THEN last.arg.parts
                        ELSE Join(ModeBase, "nxc") \o last.arg.parts

\* C14 witness: both markers present, the extraction directory apart from
\* the executable's directory, and get_data_path() returned the data
\* directory of the extraction directory.
C14_Witness ==
    /\ Returned("get_data_path")
    /\ env0.frozen /\ env0.hasMeipass
    /\ ~Under(env0.meipass, Parent(env0.executable))
    /\ last.path = Join(Join(env0.meipass, "nxc"), "data")
    /\ ~Under(last.path, Parent(env0.executable))

\* Making p on disk b needs a new entry in a directory that refuses one.
Blocked(p, b) ==
    \E q \in Ancestors(p) : q \notin b /\ Len(q) > 0 /\ Parent(q) \in denied

\* C15: ensure_directory(path) creates path and all its missing ancestors
\* and nothing else, and returns its argument; when the directory exists
\* already it succeeds and leaves the disk as it was; applying it again
\* leaves the disk as the first application left it, with the same
\* outcome; it fails, with a permission error, exactly when a directory it
\* has to create is refused.
C15_EnsureDirectoryIdempotent ==
    last.op = "ensure_directory" =>
        LET path == last.arg.parts
            again == MkdirParents(path, fs, denied)
        IN  /\ ~last.raised =>
                    /\ last.path = path
                    /\ fs = last.before \cup Ancestors(path)
            /\ Exists(path, last.before) =>
                    (~last.raised /\ fs = last.before)
            /\ again.fs = fs
            /\ again.ok = ~last.raised
            /\ last.raised <=> Blocked(path, last.before)
            /\ last.raised => last.err = "EACCES"

\* C15 witness: ensure_directory returned a path two levels below the
\* deepest directory that existed, both levels now on disk.
C15_Witness ==
    /\ Returned("ensure_directory")
    /\ ~Exists(Parent(last.path), last.before)
    /\ Exists(Parent(last.path), fs)
    /\ Exists(last.path, fs)

\* C18: once the singleton is built, its mode, base path and frozen flag
\* stay what detection gave in the environment it was built in, whatever
\* operations are called; and every accessor returns what follows from
\* that environment, also after sys.frozen or sys._MEIPASS were changed.
C18_ModeAndBaseFrozenAtConstruction ==
    resource_manager # None =>
        /\ Rm.mode = FindBasePath(env0).mode
        /\ Rm._base_path = ModeBase
        /\ Rm._is_frozen = env0.frozen
        /\ Returned("base_path") => last.path = ModeBase
        /\ Returned("is_frozen") => last.flag = env0.frozen
        /\ Returned("nxc_path") => last.path = Join(ModeBase, "nxc")
        /\ Returned("get_protocols_path") =>
                last.path = Join(Join(ModeBase, "nxc"), "protocols")
        /\ Returned("get_modules_path") =>
                last.path = Join(Join(ModeBase, "nxc"), "modules")
        /\ Returned("get_data_path") =>
                last.path = Join(Join(ModeBase, "nxc"), "data")
        /\ Returned("get_db_path") =>
                last.path = IF env0.frozen THEN Join(env0.userHome, ".nxc")
                            ELSE Join(ModeBase, "workspace")
        /\ Returned("resolve_path") =>
                last.path = JoinPath(Join(ModeBase, "nxc"), last.arg)
        /\ Returned("ensure_directory") => last.path = last.arg.parts

\* C18 witness: the frozen marker was flipped after the singleton was built,
\* and an is_frozen read made after the flip returned the value of the
\* time of construction.
C18_Witness ==
    /\ resource_manager # None
    /\ Returned("is_frozen")
    /\ last.markers.frozen # env0.frozen
    /\ last.flag = env0.frozen
    /\ Rm.mode = FindBasePath(env0).mode

\* ------------------------------------------- claims on the bootstrap main()
\* The verdict of the self-test that ran: the runner's aggregation rule over
\* its results, or all() over the fallback's test_results.
SelfTestVerdict ==
    IF pcT = "done" THEN OverallSuccess(results) ELSE AllPass(test_results)

\* C16: started without arguments, the wrapper runs the self-test battery
\* (never the tool) and ends with exit status 0 exactly when the verdict of
\* the self-test is true and with 1 otherwise; no other status occurs.
C16_SelfTestExitCode ==
    Len(sys_argv) = 1 =>
        /\ pcM # "run"
        /\ pcM = "exited" =>
                /\ exit_code.exited
                /\ exit_code.status \in {0, 1}
                /\ exit_code.status = 0 <=> SelfTestVerdict
                /\ \/ pcT = "done" /\ Len(results) > 0
                   \/ pcT = "new" /\ Len(test_results) > 0

\* C16 witness: the full battery ran to a true verdict and the process
\* ended with status 0.
C16_Witness ==
    /\ Len(sys_argv) = 1
    /\ pcM = "exited"
    /\ pcT = "done"
    /\ OverallSuccess(results)
    /\ exit_code = [exited |-> TRUE, status |-> 0]

\* C17: started with arguments, the wrapper makes one run_netexec call with
\* exactly the arguments after the script name, in their order; what the
\* call captured is printed to the process's stdout and stderr, and the
\* exit status is the returncode of the result.
C17_ForwardsArgsAndReturncode ==
    /\ Len(main_args) > 0 => pcM \notin {"self_test", "battery", "exit"}
    /\ (pcM = "exited" /\ Len(main_args) > 0) =>
        LET t == MainThread IN
        /\ ncalls[t] = 1
        /\ args[t] = SubSeq(pre[t].argv, 2, Len(pre[t].argv))
        /\ sys_argv = pre[t].argv
        /\ exit_code.exited
        /\ exit_code.status = result[t].returncode
        /\ IF pre[t].out # pre[t].err
           THEN /\ content[pre[t].out] = result[t].stdout
                /\ content[pre[t].err] = result[t].stderr
           ELSE content[pre[t].out] = result[t].stdout \o result[t].stderr

\* C17 witness: two arguments were passed on in their order, the tool wrote
\* to both streams and left with 2, and the wrapper printed both texts and
\* ended with status 2.
C17_Witness ==
    /\ pcM = "exited"
    /\ pre[MainThread].argv = <<"run_netexec.py", "smb", "--help">>
    /\ args[MainThread] = <<"smb", "--help">>
    /\ pre[MainThread].out # pre[MainThread].err
    /\ Len(content[Orig("out")]) > 0
    /\ Len(content[Orig("err")]) > 0
    /\ result[MainThread].returncode = 2
    /\ exit_code = [exited |-> TRUE, status |-> 2]

\* ------------------------------------------------- claims on the battery
\* The names of a full report, in the order of the eight checks.
ReportNames ==
    <<"basic_version", "basic_help",
      "protocol_ftp", "protocol_ldap", "protocol_mssql", "protocol_nfs",
      "protocol_rdp", "protocol_smb", "protocol_ssh", "protocol_vnc",
      "protocol_winrm", "protocol_wmi",
      "modules_list", "modules_help", "path_independence",
      "database_writable", "data_files", "argument_parsing",
      "output_capture">>
\* The check that runs next, and the names recorded when it starts.
Stages ==
    <<"basic", "protocol", "module", "path", "database", "data", "argparse",
      "capture", "summary">>
NamesBefore(stage) ==
    CASE stage \in {"new", "basic"} -> << >>
      [] stage = "protocol" -> SubSeq(ReportNames, 1, 2)
      [] stage = "module" -> SubSeq(ReportNames, 1, 12)
      [] stage = "path" -> SubSeq(ReportNames, 1, 14)
      [] stage = "database" -> SubSeq(ReportNames, 1, 15)
      [] stage = "data" -> SubSeq(ReportNames, 1, 16)
      [] stage = "argparse" -> SubSeq(ReportNames, 1, 17)
      [] stage = "capture" -> SubSeq(ReportNames, 1, 18)
      [] OTHER -> ReportNames
NamesOf(rs) == [i \in 1..Len(rs) |-> rs[i].name]
\* The checks are begun in the fixed order, none twice.
StageOrder ==
    \/ pcT' = pcT
    \/ pcT = "new" /\ pcT' = "basic"
    \/ \E i \in 1..(Len(Stages) - 1) : pcT = Stages[i] /\ pcT' = Stages[i + 1]
    \/ pcT = "summary" /\ pcT' = "verdict"
    \/ pcT = "verdict" /\ pcT' = "done"
\* Results are only appended.
AppendOnly ==
    /\ Len(results') >= Len(results)
    /\ SubSeq(results', 1, Len(results)) = results

\* C19: run_all_tests runs the eight checks in the order basic, protocol,
\* module, path-independence, writable-state, data, argument-parsing,
\* output-capture; the report holds the results in that order, results are
\* only appended, and whatever the invocations answer a finished run has
\* recorded the same 19 names, once each.
C19_ReportInExecutionOrder ==
    /\ [](NamesOf(results) = NamesBefore(pcT))
    /\ [][StageOrder /\ AppendOnly]_vars

\* C19 witness: a finished run whose report has all 19 names, with a
\* failed, a warned and a passed check among them.
C19_Witness ==
    /\ pcT = "done"
    /\ Len(results) = 19
    /\ NamesOf(results) = ReportNames
    /\ \E i, j, k \in 1..Len(results) :
        /\ results[i].status = "FAIL"
        /\ results[j].status = "WARN"
        /\ results[k].status = "PASS"

\* C20: when the code root or the data root the resolver gives is not on
\* disk, in any mode, the path-independence check has recorded Fail, and
\* the verdict of the finished run is false.
C20_MissingRootFails ==
    (Len(results) >= 15
        /\ (~Exists(NxcPathOf(Rm), fs) \/ ~Exists(DataPathOf(Rm), fs))) =>
        /\ results[15] = TestResult("path_independence", "FAIL")
        /\ pcT = "done" => ~overall


\* ------------------------------------------------- claims on the patches
PatchRan == last.op = "patch_database_path"

\* C21: a run of patch_database_path that found NXC_DB absent leaves it
\* naming the resolver's writable-state root, a run that found it present
\* leaves os.environ as it was, and a run after the first changes neither
\* os.environ nor the disk.
C21_PatchSetsDbVar ==
    PatchRan =>
        /\ Absent(last.environ) =>
              os_environ.NXC_DB = EnvVar(TRUE, DbDirOf(Rm, env))
        /\ ~Absent(last.environ) => os_environ = last.environ
        /\ nops > 1 => os_environ = last.environ /\ fs = last.before

\* ------------------------------------- claims on the writable-state check
\* The results the writable-state check has recorded.
DbResults == {i \in 1..Len(results) : results[i].name = "database_writable"}

\* C22: in a wrapper started with zero arguments, NXC_DB is set by the
\* time the writable-state check has read it, also when the process was
\* started without it, so the check has not recorded Fail for a missing
\* variable.
C22_DbVarSetBeforeCheck ==
    (Len(sys_argv) = 1 /\ pcM # "start") =>
        \A i \in DbResults :
            /\ ~Absent(os_environ)
            /\ results[i].status = "FAIL" => os_environ.NXC_DB.path \in fs

\* C26: the writable-state check has recorded Fail when the directory NXC_DB
\* names is missing and cannot be created, or is there and refuses the
\* scratch file; it has recorded Pass only when the directory is there and
\* took the scratch file.
C26_UnwritableStateFails ==
    \A i \in DbResults :
        LET v == os_environ.NXC_DB
            st == results[i].status
        IN  /\ (v.set /\ ~Exists(v.path, fs) /\ Blocked(v.path, fs))
                    => st = "FAIL"
            /\ (v.set /\ Exists(v.path, fs) /\ v.path \in denied)
                    => st = "FAIL"
            /\ st = "PASS" =>
                    (v.set /\ Exists(v.path, fs) /\ v.path \notin denied)

\* -------------------------------------------- claims on the single checks
\* The check that ran last is check k of the battery, and its calls are on
\* record.
Logged(stage) == pcT = stage /\ invoked # Unlogged

\* C24: the protocol-availability check has called run_netexec once per
\* registry protocol, in registry order, with [protocol, "--help"], and has
\* recorded for each, in the same order, one result that is Pass when the
\* returncode was 0 or 2 and stdout was longer than 100 characters, and
\* Fail otherwise.
C24_ProtocolCheck ==
    Logged("module") =>
        /\ Len(Protocols) = 10
        /\ Len(invoked) = 10
        /\ Len(results) = 2 + 10
        /\ \A i \in 1..10 :
            LET r == results[2 + i]
                a == invoked[i].result
            IN  /\ invoked[i].args = <<Protocols[i], "--help">>
                /\ r.name = "protocol_" \o Protocols[i]
                /\ r.status \in {"PASS", "FAIL"}
                /\ r.status = "PASS" <=>
                      (a.returncode \in {0, 2} /\ a.stdout.len > 100)

\* C24 witness: ftp answered with code 0 and a short text and failed, ldap
\* answered with code 2 and the long usage text and passed.
C24_Witness ==
    /\ Logged("module")
    /\ invoked[1].result = Invocation(0, Text(ShortText, {Banner}))
    /\ results[3] = TestResult("protocol_ftp", "FAIL")
    /\ invoked[2].result = Invocation(2, Text(LongText, {"usage:"}))
    /\ results[4] = TestResult("protocol_ldap", "PASS")

\* C25: whatever the two calls of the module-system check returned, the
\* check has recorded exactly two results, modules_list and modules_help in
\* this order, each of them Pass or Warn.
C25_ModuleCheckIsSoft ==
    Logged("path") =>
        /\ Len(invoked) = 2
        /\ Len(results) = 2 + 10 + 2
        /\ results[13].name = "modules_list"
        /\ results[14].name = "modules_help"
        /\ results[13].status \in {"PASS", "WARN"}
        /\ results[14].status \in {"PASS", "WARN"}

\* C25 witness: both calls ended with an unexpected code and no output, and
\* both results are Warn.
C25_Witness ==
    /\ Logged("path")
    /\ invoked[1] = Called(<<"smb", "-L">>, Invocation(OddCode, Text(0, {})))
    /\ invoked[2].result = Invocation(OddCode, Text(0, {}))
    /\ results[13] = TestResult("modules_list", "WARN")
    /\ results[14] = TestResult("modules_help", "WARN")
====
